---- MODULE Spec2Model ----
(***************************************************************************)
(* Model of the feed store and refresh orchestration of the news reader   *)
(* (src/main/feeds.ts, src/main/database.ts) and of the article display   *)
(* path (renderer/components/rss/ArticleView.tsx).                         *)
(*                                                                         *)
(* The main process is single threaded: every handler runs atomically up  *)
(* to its next await.  refreshFeed and addFeed have one observable        *)
(* suspension (the network fetch followed by the body read), so each is   *)
(* modelled as a Start step and a Resume step.                            *)
(***************************************************************************)
EXTENDS Integers, Sequences, FiniteSets, Bags, TLC

\* ---------------------------------------------------------------- bounds
MaxFeeds == 2      \* feed rows ever created (AUTOINCREMENT ids 1..MaxFeeds)
MaxTasks == 2      \* refreshFeed invocations in flight at once
MaxClock == 2      \* instants the wall clock takes
MaxItems == 3      \* INSERT statements of a batch, any of which the storage can fail at
MaxOpened == 2     \* calls of shell.openExternal
MaxDepth == 1      \* objects nested in the __cdata or #text of an object
MaxRuns == 3       \* runs of the auto-refresh effect of the panel
MaxStocks == 2     \* watchlist rows ever created (AUTOINCREMENT ids 1..MaxStocks)
MaxCalls == 2      \* addToWatchlist invocations in flight at once
MaxFolders == 2    \* folder rows ever created by the user (AUTOINCREMENT ids 1..MaxFolders)

\* ---------------------------------------------------------------- values
NULL == "NULL"
NoFolder == 0      \* folder_id NULL: folder ids are 1, 2, ...
NoDate == 0        \* the empty string '' produced by toIso on failure
FeedIds == 1..MaxFeeds

\* URLs, as new URL() sees them: protocol without the colon, "" when the
\* string does not parse as an absolute URL.
UrlA == [href |-> "https://a.example/feed", protocol |-> "https"]
UrlB == [href |-> "http://b.example/atom", protocol |-> "http"]
UrlFile == [href |-> "file:///etc/passwd", protocol |-> "file"]
UrlBad == [href |-> "not a url", protocol |-> ""]
GoodUrls == {UrlA, UrlB}
Urls == {UrlA, UrlB, UrlFile, UrlBad}

\* Strings of HTML the publishers serve, and the one-line text "hi".
HtmlHi == "<p>hi</p>"
HtmlXss == "<p>hi</p><script>alert(1)</script>"
HtmlOnError == "<p>hi</p><img src='https://x.invalid/p.jpg' onerror='alert(2)'>"
HtmlForm == "<p>hi</p><form action='https://evil.example/steal'></form>"
TextHi == "hi"
EmptyHtml == ""

\* The elements the DOM builds from a string set as innerHTML; attrs is a
\* set of [name, scheme] pairs (scheme "" for a value that is not a URL).
El(tag, attrs) == [tag |-> tag, attrs |-> attrs]
Elements(html) ==
  IF html = HtmlHi THEN <<El("p", {})>>
  ELSE IF html = HtmlXss THEN <<El("p", {}), El("script", {})>>
  ELSE IF html = HtmlOnError
    THEN <<El("p", {}), El("img", {[name |-> "src", scheme |-> "https"], [name |-> "onerror", scheme |-> ""]})>>
  ELSE IF html = HtmlForm THEN <<El("p", {}), El("form", {[name |-> "action", scheme |-> "https"]})>>
  ELSE IF html = EmptyHtml THEN << >>
  ELSE <<El("#text", {})>>

\* s.replace(/<[^>]*>/g, '').slice(0, 500) on the strings above (all of
\* them shorter than 500 characters); a string without tags is kept.
stripTags(s) ==
  IF s = HtmlHi THEN "hi"
  ELSE IF s = HtmlXss THEN "hialert(1)"
  ELSE IF s = HtmlOnError THEN "hi"
  ELSE IF s = HtmlForm THEN "hi"
  ELSE s

\* ------------------------------------------------------- the parsed tree
\* Values of the tree fast-xml-parser builds: a missing key, a string, a
\* number, a boolean, an object (with its keys; __cdata and #text hold
\* values), an array.
Absent == [t |-> "undefined"]
XStr(s) == [t |-> "string", v |-> s]
XNum(n) == [t |-> "number", v |-> n]
XBool(b) == [t |-> "boolean", v |-> b]
XObj(keys, cdata, text) == [t |-> "object", keys |-> keys, cdata |-> cdata, text |-> text]
XCdata(s) == XObj({"__cdata"}, XStr(s), Absent)
XAttr(s) == XObj({"#text", "@_type"}, Absent, XStr(s))
XArr(elems) == [t |-> "array", elems |-> elems]
First(arr) == IF arr.elems = << >> THEN Absent ELSE arr.elems[1]

\* str with the text node looked at before the CDATA payload.
RECURSIVE strTextFirst(_)
strTextFirst(v) ==
  IF v.t = "undefined" THEN ""
  ELSE IF v.t = "string" THEN v.v
  ELSE IF v.t = "number" THEN ToString(v.v)
  ELSE IF v.t = "boolean" THEN (IF v.v THEN "true" ELSE "false")
  ELSE IF v.t = "object" THEN
    IF "#text" \in v.keys THEN strTextFirst(v.text)
    ELSE IF "__cdata" \in v.keys THEN strTextFirst(v.cdata)
    ELSE ""
  ELSE ""

\* str: any tree value to a plain string.
RECURSIVE str(_)
str(v) ==
  IF v.t = "undefined" THEN ""
  ELSE IF v.t = "string" THEN v.v
  ELSE IF v.t = "number" THEN ToString(v.v)
  ELSE IF v.t = "boolean" THEN (IF v.v THEN "true" ELSE "false")
  ELSE IF v.t = "object" THEN
    IF "__cdata" \in v.keys THEN str(v.cdata)
    ELSE IF "#text" \in v.keys THEN str(v.text)
    ELSE ""
  ELSE ""

\* new Date(s) on the date strings the publishers use: the instant, or an
\* invalid date.
InvalidDate == -1
DateParse(s) ==
  IF s = "Mon, 01 Jan 2024 00:00:00 GMT" THEN 1
  ELSE IF s = "2024-01-01T00:00:00Z" THEN 1
  ELSE IF s = "2024-01-02T00:00:00Z" THEN 2
  ELSE InvalidDate

\* new Date(s).toISOString() inside toIso's try: '' when it throws.
isoOrEmpty(s) ==
  IF s = "" THEN NoDate
  ELSE IF DateParse(s) = InvalidDate THEN NoDate
  ELSE DateParse(s)

\* toIso: '' for a missing value and for a date that does not parse.
toIso(v) == isoOrEmpty(str(v))

\* a || b on strings, and on dates
orElse(a, b) == IF a # "" THEN a ELSE b
orElseDate(a, b) == IF a # NoDate THEN a ELSE b

\* the identity chain with link and title in the other order
identityTitleFirst(guid, link, title) == orElse(orElse(guid, title), link)

\* guid = str(item.guid) || link || title
identity(guid, link, title) == orElse(orElse(guid, link), title)

\* The ParsedItem an item or entry becomes, from its coerced fields.
ParsedItem(guidText, title, link, creator, snippetSource, content, isoDate) ==
  [guid |-> identity(guidText, link, title), title |-> title, link |-> link, creator |-> creator,
   contentSnippet |-> stripTags(snippetSource), content |-> content, isoDate |-> isoDate]

\* parseRssChannel, one item of rawItems.map(...)
parseRssItem(item) ==
  ParsedItem(str(item.guid), str(item.title),
             str(IF item.link.t = "array" THEN First(item.link) ELSE item.link),
             orElse(str(item.dc_creator), str(item.author)),
             str(item.description),
             orElse(str(item.content_encoded), str(item.description)),
             orElseDate(toIso(item.pubDate), toIso(item.dc_date)))

parseRssChannel(channel) ==
  [title |-> str(channel.title), description |-> str(channel.description),
   link |-> (IF channel.link.t # "undefined" THEN str(First(channel.link)) ELSE ""),
   items |-> IF channel.item.t # "undefined"
             THEN [i \in 1..Len(channel.item.elems) |-> parseRssItem(channel.item.elems[i])]
             ELSE << >>]

\* the href of the first link with no rel or rel "alternate", else ''
RECURSIVE alternateLink(_)
alternateLink(links) ==
  IF links = << >> THEN ""
  ELSE IF Head(links).rel = "" \/ Head(links).rel = "alternate" THEN str(Head(links).href)
  ELSE alternateLink(Tail(links))

\* parseAtomFeed, one entry of entries.map(...)
parseAtomEntry(entry) ==
  ParsedItem(str(entry.id), str(entry.title),
             alternateLink(IF entry.link.t # "undefined" THEN entry.link.elems ELSE << >>),
             (IF entry.author.t # "undefined" THEN str(entry.author.name) ELSE ""),
             orElse(str(entry.summary), str(entry.content)),
             orElse(str(entry.content), str(entry.summary)),
             orElseDate(toIso(entry.updated), toIso(entry.published)))

parseAtomFeed(feed) ==
  [title |-> str(feed.title),
   description |-> str(IF feed.subtitle.t # "undefined" THEN feed.subtitle ELSE feed.description),
   link |-> alternateLink(IF feed.link.t # "undefined" THEN feed.link.elems ELSE << >>),
   items |-> IF feed.entry.t # "undefined"
             THEN [i \in 1..Len(feed.entry.elems) |-> parseAtomEntry(feed.entry.elems[i])]
             ELSE << >>]

\* ------------------------------------------------- what the servers serve
\* An <item> of an RSS channel and an <entry> of an Atom feed, as trees.
RssItem(guid, title, link, description, contentEncoded, creator, pubDate, dcDate) ==
  [guid |-> guid, title |-> title, link |-> link, description |-> description,
   content_encoded |-> contentEncoded, dc_creator |-> creator, author |-> Absent,
   pubDate |-> pubDate, dc_date |-> dcDate]
AtomLink(rel, href) == [rel |-> rel, href |-> XStr(href)]
AtomEntry(id, title, link, author, summary, content, updated) ==
  [id |-> id, title |-> title, link |-> link, author |-> author, summary |-> summary,
   content |-> content, updated |-> updated, published |-> Absent]
RssChannel(title, description, link, items) ==
  [title |-> title, description |-> description, link |-> link, item |-> XArr(items)]
AtomFeed(title, link, entries) ==
  [title |-> title, subtitle |-> Absent, description |-> Absent, link |-> link, entry |-> XArr(entries)]

RawA1 == RssItem(XAttr("a1"), XStr("A one"), XArr(<<XStr("https://a.example/1")>>), XStr(HtmlHi),
                 XCdata(HtmlXss), XStr("ann"), XStr("Mon, 01 Jan 2024 00:00:00 GMT"), Absent)
RawA1v2 == RssItem(XAttr("a1"), XStr("A one (edited)"), XArr(<<XStr("https://a.example/1")>>), XStr(HtmlHi),
                   Absent, XStr("ann"), Absent, XStr("2024-01-02T00:00:00Z"))
RawA2 == RssItem(XCdata("a2"), XStr("A two"), XArr(<<XStr("https://a.example/2")>>), Absent,
                 Absent, Absent, Absent, Absent)
EntryB1 == AtomEntry(XStr("b1"), XStr("B one"),
                     XArr(<<AtomLink("self", "http://b.example/atom"), AtomLink("alternate", "http://b.example/1")>>),
                     [t |-> "object", name |-> XStr("bob")], Absent, XAttr(HtmlOnError),
                     XStr("2024-01-01T00:00:00Z"))

ChannelA == RssChannel(XStr("Feed A"), XStr("about A"), XArr(<<XStr("https://a.example")>>), <<RawA1>>)
ChannelA2 == RssChannel(XStr("Feed A"), XStr("about A"), XArr(<<XStr("https://a.example")>>),
                        <<RawA1v2, RawA2, RawA1>>)
FeedB == AtomFeed(Absent, Absent, <<EntryB1>>)

\* Parsed items (ParsedItem) and documents (ParsedFeed) of these trees.
ItemA1 == parseRssItem(RawA1)
ItemA1v2 == parseRssItem(RawA1v2)
ItemA2 == parseRssItem(RawA2)
ItemB1 == parseAtomEntry(EntryB1)

DocA == parseRssChannel(ChannelA)
DocA2 == parseRssChannel(ChannelA2)
DocB == parseAtomFeed(FeedB)

\* A channel of two items, one with a guid, one without a guid but with a
\* link and with a date that does not parse; the same channel followed by
\* an item that has only a description and an item that has only a title.
UrlC == [href |-> "https://c.example/rss", protocol |-> "https"]
UrlD == [href |-> "https://d.example/atom", protocol |-> "https"]
ParseUrls == {UrlC, UrlD}
RawC1 == RssItem(XStr("c1"), XStr("C one"), XArr(<<XStr("https://c.example/1")>>), XStr(HtmlHi),
                 Absent, Absent, XStr("Mon, 01 Jan 2024 00:00:00 GMT"), Absent)
RawC2 == RssItem(Absent, XStr("C two"), XArr(<<XStr("https://c.example/2")>>), XStr(TextHi),
                 Absent, Absent, XStr("soon"), Absent)
RawCNoId == RssItem(Absent, Absent, Absent, XStr(TextHi), Absent, Absent, Absent, Absent)
RawCTitle == RssItem(XObj({}, Absent, Absent), XCdata("C three"), XArr(<< >>), Absent,
                     Absent, Absent, Absent, XStr("2024-01-02T00:00:00Z"))
ChannelC == RssChannel(XStr("Feed C"), Absent, Absent, <<RawC1, RawC2>>)
ChannelC3 == RssChannel(XStr("Feed C"), Absent, Absent, <<RawC1, RawC2, RawCNoId, RawCTitle>>)

\* An Atom feed of one entry with an id, and one whose entry has no id and
\* whose second link is the alternate one.
EntryD1 == AtomEntry(XStr("d1"), XStr("D one"), XArr(<<AtomLink("", "https://d.example/1")>>),
                     Absent, XStr(TextHi), Absent, XStr("2024-01-01T00:00:00Z"))
EntryD2 == AtomEntry(Absent, XStr("D two"),
                     XArr(<<AtomLink("self", "https://d.example/atom"), AtomLink("alternate", "https://d.example/2")>>),
                     Absent, Absent, XAttr(HtmlHi), Absent)
FeedD == AtomFeed(XStr("Feed D"), XArr(<<AtomLink("alternate", "https://d.example")>>), <<EntryD1>>)
FeedD2 == AtomFeed(XStr("Feed D"), Absent, <<EntryD2>>)

\* What a GET of a URL can produce: a network failure, or a response with a
\* status and a body whose root element is rss, feed or something else;
\* doc is the tree under the root.
NetworkError == [kind |-> "network"]
Aborted == [kind |-> "aborted"]      \* the fetch rejected by controller.abort()
Response(status, root, doc) == [kind |-> "response", status |-> status, root |-> root, doc |-> doc]
NoDoc == [title |-> "", description |-> "", link |-> "", items |-> << >>]
NoBody == Absent
NoChannel == Absent                  \* rss.channel of <rss version="2.0"><foo/></rss>
Responses(url) ==
  IF url = UrlA THEN {Response(200, "rss", ChannelA), Response(200, "rss", ChannelA2), Response(403, "", NoBody)}
  ELSE IF url = UrlB THEN {Response(200, "feed", FeedB), Response(200, "html", NoBody), Response(500, "", NoBody),
                           Response(200, "rss", NoChannel)}
  ELSE IF url = UrlC THEN {Response(200, "rss", ChannelC), Response(200, "rss", ChannelC3)}
  ELSE IF url = UrlD THEN {Response(200, "feed", FeedD), Response(200, "feed", FeedD2)}
  ELSE {NetworkError}

\* The responses of the orchestration runs: source A serves its grown
\* document or refuses, source B serves its document or something else.
CoreResponses(url) ==
  Responses(url) \ {Response(200, "rss", ChannelA), Response(500, "", NoBody), Response(200, "rss", NoChannel)}

VARIABLES
  feeds,          \* feeds table: id -> row
  articles,       \* articles table: set of rows
  nextFeedId,     \* AUTOINCREMENT sequence of feeds
  nextArticleId,  \* AUTOINCREMENT sequence of articles
  now,            \* wall clock (datetime('now'), new Date())
  tasks,          \* refreshFeed invocations waiting for their fetch (a bag)
  allCall,        \* the refreshAllFeeds invocation in flight and its settled results
  adding,         \* the addFeed invocation in flight, if any
  ret,            \* what the last completed handler handed to its caller
  hist,           \* per feed: outcome and document of its last completed ingestion
  displayed,      \* HTML last handed to the DOM by ArticleView
  adding2,        \* a second addFeed invocation in flight, if any
  folders,        \* folders table: id -> row
  nextFolderId,   \* AUTOINCREMENT sequence of folders
  watchlist,      \* watchlist table: id -> row
  nextStockId,    \* AUTOINCREMENT sequence of watchlist
  quoting,        \* addToWatchlist invocations waiting for their quote (a bag)
  opened,         \* URLs handed to shell.openExternal, in order
  panel,          \* RssPanel: its auto-refresh effect runs and their intervals
  probe           \* the last value given to str and what it returned

feedVars == <<feeds, articles, nextFeedId, nextArticleId, now, tasks, allCall, adding, hist, displayed>>
auxVars == <<adding2, folders, nextFolderId, watchlist, nextStockId, quoting, opened, panel, probe>>
vars == <<feeds, articles, nextFeedId, nextArticleId, now, tasks, allCall, adding, ret, hist, displayed,
          adding2, folders, nextFolderId, watchlist, nextStockId, quoting, opened, panel, probe>>


\* ------------------------------------------------------- fetch and parse
Thrown(msg) == [ok |-> FALSE, msg |-> msg, doc |-> NoDoc]
Parsed(doc) == [ok |-> TRUE, msg |-> "", doc |-> doc]

\* parseRssChannel(rss.channel) when the <rss> element has no <channel>:
\* the first property read of undefined throws a TypeError.
ChannelUndefined == "Cannot read properties of undefined (reading 'link')"
UnrecognizedFormat == "Unrecognized feed format (expected RSS 2.0 or Atom)"

\* fetchAndParseFeed: the outcome of fetch + text + parse for one response.
fetchAndParseFeed(resp) ==
  IF resp.kind = "network" THEN Thrown("fetch failed")
  ELSE IF resp.kind = "aborted" THEN Thrown("This operation was aborted")
  ELSE IF resp.status # 200 THEN
    IF resp.status = 403 THEN Thrown("403 Forbidden")
    ELSE Thrown("Failed to fetch feed: HTTP error")
  ELSE IF resp.root = "rss" THEN
    IF resp.doc = Absent THEN Thrown(ChannelUndefined)
    ELSE Parsed(parseRssChannel(resp.doc))
  ELSE IF resp.root = "feed" THEN Parsed(parseAtomFeed(resp.doc))
  ELSE Thrown(UnrecognizedFormat)

\* validateFeedUrl: "" when the URL is accepted, else the message thrown.
validateFeedUrl(url) ==
  IF url.protocol = "" THEN "Invalid feed URL"
  ELSE IF url.protocol # "http" /\ url.protocol # "https" THEN "Feed URLs must use http or https"
  ELSE ""

\* ------------------------------------------------------------ the store
rowToArticle(row) ==
  [id |-> row.id, feedId |-> row.feed_id, guid |-> row.guid, title |-> row.title,
   link |-> row.link, author |-> row.author, summary |-> row.summary,
   content |-> row.content, publishedAt |-> row.published_at,
   isRead |-> (row.is_read # 0), isStarred |-> (row.is_starred # 0),
   fetchedAt |-> row.fetched_at]

\* listArticles(feedId): the rows of one feed (the ORDER BY is not modelled,
\* the result is the set of the returned records).
listArticles(arts, feedId) == {rowToArticle(a) : a \in {b \in arts : b.feed_id = feedId}}

getArticle(arts, id) ==
  IF \E a \in arts : a.id = id THEN rowToArticle(CHOOSE a \in arts : a.id = id) ELSE NULL

\* the row with published_at bound to item.isoDate alone
NewRowNoDateFallback(id, feedId, item, clock) ==
  [id |-> id, feed_id |-> feedId, guid |-> item.guid, title |-> item.title,
   link |-> item.link, author |-> item.creator, summary |-> item.contentSnippet,
   content |-> item.content, published_at |-> item.isoDate,
   is_read |-> 0, is_starred |-> 0, fetched_at |-> clock]

\* The row one INSERT creates: published_at is item.isoDate || new Date(),
\* fetched_at the column default datetime('now').
NewRow(id, feedId, item, clock) ==
  [id |-> id, feed_id |-> feedId, guid |-> item.guid, title |-> item.title,
   link |-> item.link, author |-> item.creator, summary |-> item.contentSnippet,
   content |-> item.content,
   published_at |-> (IF item.isoDate # NoDate THEN item.isoDate ELSE clock),
   is_read |-> 0, is_starred |-> 0, fetched_at |-> clock]

\* One INSERT with a conflict policy other than IGNORE, kept as the forms
\* the statement could have been written in.
insertOrReplace(st, feedId, item, clock) ==
  [articles |-> {a \in st.articles : ~(a.feed_id = feedId /\ a.guid = item.guid)}
                  \cup {NewRow(st.nid, feedId, item, clock)},
   nid |-> st.nid + 1]

insertPlain(st, feedId, item, clock) ==
  [articles |-> st.articles \cup {NewRow(st.nid, feedId, item, clock)}, nid |-> st.nid + 1]

\* INSERT OR IGNORE INTO articles ...: a row whose (feed_id, guid) exists
\* is left alone and no rowid is consumed.
insertOrIgnore(st, feedId, item, clock) ==
  IF \E a \in st.articles : a.feed_id = feedId /\ a.guid = item.guid
  THEN st
  ELSE [articles |-> st.articles \cup {NewRow(st.nid, feedId, item, clock)}, nid |-> st.nid + 1]

\* the loop leaving at the first item whose identity is already stored
RECURSIVE insertManyUntilConflict(_, _, _, _)
insertManyUntilConflict(st, feedId, items, clock) ==
  IF items = << >> THEN st
  ELSE IF \E a \in st.articles : a.feed_id = feedId /\ a.guid = Head(items).guid THEN st
  ELSE insertManyUntilConflict(insertOrIgnore(st, feedId, Head(items), clock), feedId, Tail(items), clock)

\* for (const item of articles) stmt.run(...)
RECURSIVE insertMany(_, _, _, _)
insertMany(st, feedId, items, clock) ==
  IF items = << >> THEN st
  ELSE insertMany(insertOrIgnore(st, feedId, Head(items), clock), feedId, Tail(items), clock)

\* insertArticles on a connection without "PRAGMA foreign_keys = ON".
insertArticlesNoForeignKey(fs, arts, nid, feedId, items, clock) ==
  [ok |-> TRUE, msg |-> "",
   articles |-> insertMany([articles |-> arts, nid |-> nid], feedId, items, clock).articles,
   nid |-> insertMany([articles |-> arts, nid |-> nid], feedId, items, clock).nid]

\* What insertMany(items) gives its caller: the store after it returned,
\* or the error it threw and the store it left.
Inserted(st) == [ok |-> TRUE, msg |-> "", articles |-> st.articles, nid |-> st.nid]
InsertThrew(msg, st) == [ok |-> FALSE, msg |-> msg, articles |-> st.articles, nid |-> st.nid]
StorageFull == "database or disk is full"

\* the loop run statement by statement with no transaction around it: the
\* rows of the items before the failing one stay
insertArticlesNoTxn(fs, arts, nid, feedId, items, clock, failAt) ==
  IF items # << >> /\ feedId \notin DOMAIN fs
  THEN InsertThrew("FOREIGN KEY constraint failed", [articles |-> arts, nid |-> nid])
  ELSE IF failAt \in 1..Len(items)
  THEN InsertThrew(StorageFull, insertMany([articles |-> arts, nid |-> nid], feedId,
                                           SubSeq(items, 1, failAt - 1), clock))
  ELSE Inserted(insertMany([articles |-> arts, nid |-> nid], feedId, items, clock))

\* insertMany = db.transaction(loop): all items in one transaction.  The
\* foreign key on feed_id is not covered by OR IGNORE: with the feed row
\* gone the first INSERT throws.  failAt is the statement the storage
\* fails at (0: none).  A throw inside the transaction rolls it back, rows
\* and rowid sequence.
insertArticlesTxn(fs, arts, nid, feedId, items, clock, failAt) ==
  IF items # << >> /\ feedId \notin DOMAIN fs
  THEN InsertThrew("FOREIGN KEY constraint failed", [articles |-> arts, nid |-> nid])
  ELSE IF failAt \in 1..Len(items)
  THEN InsertThrew(StorageFull, [articles |-> arts, nid |-> nid])
  ELSE Inserted(insertMany([articles |-> arts, nid |-> nid], feedId, items, clock))

\* insertArticles on a storage that does not fail.
insertArticles(fs, arts, nid, feedId, items, clock) ==
  insertArticlesTxn(fs, arts, nid, feedId, items, clock, 0)

\* the metadata UPDATE without "error_message = NULL"
updateFetchedKeepingError(fs, feedId, doc, clock) ==
  IF feedId \in DOMAIN fs
  THEN [fs EXCEPT ![feedId] = [@ EXCEPT !.description = doc.description, !.site_url = doc.link,
                                        !.last_fetched_at = clock]]
  ELSE fs

\* UPDATE feeds SET description, site_url, last_fetched_at, error_message = NULL WHERE id = ?
updateFetched(fs, feedId, doc, clock) ==
  IF feedId \in DOMAIN fs
  THEN [fs EXCEPT ![feedId] = [@ EXCEPT !.description = doc.description, !.site_url = doc.link,
                                        !.last_fetched_at = clock, !.error_message = NULL]]
  ELSE fs

\* the same UPDATE without "WHERE id = ?"
setErrorEverywhere(fs, feedId, msg) == [f \in DOMAIN fs |-> [fs[f] EXCEPT !.error_message = msg]]

\* UPDATE feeds SET error_message = ? WHERE id = ?
setError(fs, feedId, msg) ==
  IF feedId \in DOMAIN fs THEN [fs EXCEPT ![feedId] = [@ EXCEPT !.error_message = msg]] ELSE fs


\* refreshFeed's catch block: the error is recorded and swallowed, so the
\* promise still fulfils.  (catchAndRethrow is the block with a rethrow.)
catchAndRethrow(fs, feedId, msg) == [feeds |-> setError(fs, feedId, msg), status |-> "rejected"]

catchRefresh(fs, feedId, msg) == [feeds |-> setError(fs, feedId, msg), status |-> "fulfilled"]

\* A refresh that clears the feed's rows before it re-inserts what it parsed.
refreshFeedResumeClearing(fs, arts, nid, feedId, resp, clock) ==
  LET r == fetchAndParseFeed(resp)
      kept == {a \in arts : a.feed_id # feedId}
  IN IF r.ok
     THEN LET ins == insertArticles(fs, kept, nid, feedId, r.doc.items, clock)
          IN [feeds |-> updateFetched(fs, feedId, r.doc, clock), articles |-> ins.articles,
              nid |-> ins.nid, ok |-> TRUE, status |-> "fulfilled", doc |-> r.doc, msg |-> ""]
     ELSE [feeds |-> setError(fs, feedId, r.msg), articles |-> kept, nid |-> nid,
           ok |-> FALSE, status |-> "fulfilled", doc |-> NoDoc, msg |-> r.msg]

\* refreshFeed's catch block for the error thrown by the fetch, the parse or
\* the store.
refreshFeedCatch(fs, arts, nid, feedId, msg) ==
  [feeds |-> catchRefresh(fs, feedId, msg).feeds, articles |-> arts, nid |-> nid,
   ok |-> FALSE, status |-> catchRefresh(fs, feedId, msg).status, doc |-> NoDoc, msg |-> msg]

\* refreshFeed's try block after the fetch returned doc: the metadata
\* UPDATE (fs1 is the table after it), then insertArticles; when that
\* throws, the catch block runs on the store insertArticles left.
refreshFeedStore(fs1, arts, nid, feedId, doc, ins) ==
  IF ins.ok
  THEN [feeds |-> fs1, articles |-> ins.articles, nid |-> ins.nid,
        ok |-> TRUE, status |-> "fulfilled", doc |-> doc, msg |-> ""]
  ELSE refreshFeedCatch(fs1, ins.articles, ins.nid, feedId, ins.msg)

refreshFeedTry(fs1, arts, nid, feedId, doc, clock) ==
  refreshFeedStore(fs1, arts, nid, feedId, doc, insertArticles(fs1, arts, nid, feedId, doc.items, clock))

\* refreshFeed after its fetch settled with r.
refreshFeedSettled(fs, arts, nid, feedId, r, clock) ==
  IF r.ok
  THEN refreshFeedTry(updateFetched(fs, feedId, r.doc, clock), arts, nid, feedId, r.doc, clock)
  ELSE refreshFeedCatch(fs, arts, nid, feedId, r.msg)

\* refreshFeed after its await: the try block (metadata UPDATE, then
\* insertArticles) and the catch block.
refreshFeedResume(fs, arts, nid, feedId, resp, clock) ==
  refreshFeedSettled(fs, arts, nid, feedId, fetchAndParseFeed(resp), clock)

\* refreshFeed after its fetch returned doc, the storage failing at the
\* failAt-th INSERT of the batch.
refreshFeedTryAt(fs1, arts, nid, feedId, doc, clock, failAt) ==
  refreshFeedStore(fs1, arts, nid, feedId, doc,
                   insertArticlesTxn(fs1, arts, nid, feedId, doc.items, clock, failAt))

refreshFeedResumeAt(fs, arts, nid, feedId, doc, clock, failAt) ==
  refreshFeedTryAt(updateFetched(fs, feedId, doc, clock), arts, nid, feedId, doc, clock, failAt)

\* listFeeds: ORDER BY position ASC, id ASC, as a sequence of ids.
RECURSIVE SortedIds(_, _)
SortedIds(fs, ids) ==
  IF ids = {} THEN << >>
  ELSE LET m == CHOOSE i \in ids : \A j \in ids :
                  fs[i].position < fs[j].position \/ (fs[i].position = fs[j].position /\ i <= j)
       IN <<m>> \o SortedIds(fs, ids \ {m})

listFeeds(fs) == SortedIds(fs, DOMAIN fs)

\* refreshAllFeeds after Promise.allSettled: the values of the fulfilled results.
aggregate(results) == UNION {r.value : r \in {x \in results : x.status = "fulfilled"}}

\* ArticleView: displayContent = article.content || article.summary || '',
\* handed to dangerouslySetInnerHTML as it is.
displayContent(article) ==
  IF article.content # EmptyHtml THEN article.content
  ELSE IF article.summary # EmptyHtml THEN article.summary
  ELSE EmptyHtml

\* ------------------------------------------------------------- the state
NoRet == [op |-> "none"]
NoDisplay == [article |-> 0, raw |-> EmptyHtml, html |-> EmptyHtml]
IdleCall == [st |-> "idle", results |-> {}]
Unmounted == [mounted |-> FALSE, selection |-> "all", runs |-> << >>]
NoProbe == [v |-> Absent, s |-> ""]

Init ==
  /\ feeds = << >>
  /\ articles = {}
  /\ nextFeedId = 1
  /\ nextArticleId = 1
  /\ now = 1
  /\ tasks = EmptyBag
  /\ allCall = IdleCall
  /\ adding = [st |-> "idle", url |-> UrlBad]
  /\ ret = NoRet
  /\ hist = << >>
  /\ displayed = NoDisplay
  /\ adding2 = [st |-> "idle", url |-> UrlBad]
  /\ folders = << >>
  /\ nextFolderId = 1
  /\ watchlist = << >>
  /\ nextStockId = 1
  /\ quoting = EmptyBag
  /\ opened = << >>
  /\ panel = Unmounted
  /\ probe = NoProbe

Restrict(f, S) == [x \in S |-> f[x]]
GuidsOf(arts, feedId) == {a.guid : a \in {b \in arts : b.feed_id = feedId}}
ItemGuids(doc) == {doc.items[i].guid : i \in 1..Len(doc.items)}

\* A refreshFeed invocation suspended at its fetch: the feed id, the url it
\* read from the row, who awaits it, and whether another refresh of the same
\* feed has stored its items in the meantime.  phase is where
\* fetchAndParseFeed stands: at "await fetch(...)" with the 30 s timer
\* armed ("headers"), or at "await response.text()" ("body").
NewTask(feedId, call) ==
  [feedId |-> feedId, url |-> feeds[feedId].url, call |-> call, raced |-> FALSE, phase |-> "headers"]

\* --------------------------------------------------------------- actions
\* addFeed up to its await: validation, then the fetch is started.
AddFeedStart(url) ==
  /\ adding.st = "idle"
  /\ IF validateFeedUrl(url) # ""
     THEN /\ ret' = [op |-> "addFeed", status |-> "rejected", msg |-> validateFeedUrl(url), url |-> url]
          /\ UNCHANGED adding
     ELSE /\ adding' = [st |-> "fetching", url |-> url]
          /\ ret' = NoRet
  /\ UNCHANGED <<feeds, articles, nextFeedId, nextArticleId, now, tasks, allCall, hist, displayed>>
  /\ UNCHANGED auxVars

\* addFeed with the INSERT INTO feeds ahead of the fetch: the row is there
\* whatever the fetch gives.
AddFeedResumeRowFirst(resp) ==
  /\ adding.st = "fetching"
  /\ resp \in Responses(adding.url)
  /\ nextFeedId <= MaxFeeds
  /\ ~(\E f \in DOMAIN feeds : feeds[f].url = adding.url)
  /\ adding' = [st |-> "idle", url |-> UrlBad]
  /\ LET r == fetchAndParseFeed(resp)
         id == nextFeedId
         row == [id |-> id, url |-> adding.url, title |-> adding.url.href, description |-> "",
                 site_url |-> "", folder_id |-> NoFolder, position |-> 0,
                 last_fetched_at |-> NULL, error_message |-> NULL, created_at |-> now]
     IN /\ feeds' = [f \in DOMAIN feeds \cup {id} |-> IF f = id THEN row ELSE feeds[f]]
        /\ nextFeedId' = id + 1
        /\ hist' = [f \in DOMAIN hist \cup {id} |-> IF f = id THEN [last |-> "none", doc |-> NoDoc] ELSE hist[f]]
        /\ ret' = IF r.ok
                  THEN [op |-> "addFeed", status |-> "fulfilled", value |-> row, url |-> adding.url, resp |-> resp]
                  ELSE [op |-> "addFeed", status |-> "rejected", msg |-> "Failed to fetch feed", url |-> adding.url]
  /\ UNCHANGED <<articles, nextArticleId, now, tasks, allCall, displayed>>
  /\ UNCHANGED auxVars

\* feeds.url is UNIQUE: the INSERT of a url a row already has throws.
\* (urlNeverTaken is the column without the constraint.)
urlNeverTaken(fs, url) == FALSE

urlTaken(fs, url) == \E f \in DOMAIN fs : fs[f].url = url

\* addFeed after its await, for the call that fetched url; overlapped tells
\* whether another addFeed of the same url was in flight when it started.
AddFeedSettle(url, resp, overlapped) ==
  /\ (fetchAndParseFeed(resp).ok /\ ~urlTaken(feeds, url)) => nextFeedId <= MaxFeeds
  /\ LET r == fetchAndParseFeed(resp)
         id == nextFeedId
     IN IF ~r.ok
        THEN /\ ret' = [op |-> "addFeed", status |-> "rejected", msg |-> "Failed to fetch feed", url |-> url,
                        overlapped |-> overlapped]
             /\ UNCHANGED <<feeds, articles, nextFeedId, nextArticleId, hist>>
        ELSE IF urlTaken(feeds, url)
        THEN /\ ret' = [op |-> "addFeed", status |-> "rejected", msg |-> "UNIQUE constraint failed: feeds.url",
                        url |-> url, overlapped |-> overlapped]
             /\ UNCHANGED <<feeds, articles, nextFeedId, nextArticleId, hist>>
        ELSE LET maxPos == IF DOMAIN feeds = {} THEN 0
                           ELSE 1 + (CHOOSE p \in {feeds[f].position : f \in DOMAIN feeds} :
                                       \A f \in DOMAIN feeds : feeds[f].position <= p)
                 row == [id |-> id, url |-> url,
                         title |-> (IF r.doc.title # "" THEN r.doc.title ELSE url.href),
                         description |-> r.doc.description, site_url |-> r.doc.link,
                         folder_id |-> NoFolder, position |-> maxPos,
                         last_fetched_at |-> NULL, error_message |-> NULL, created_at |-> now]
                 fs1 == [f \in DOMAIN feeds \cup {id} |-> IF f = id THEN row ELSE feeds[f]]
                 ins == insertArticles(fs1, articles, nextArticleId, id, r.doc.items, now)
             IN /\ feeds' = [fs1 EXCEPT ![id] = [@ EXCEPT !.last_fetched_at = now, !.error_message = NULL]]
                /\ articles' = ins.articles
                /\ nextArticleId' = ins.nid
                /\ nextFeedId' = id + 1
                /\ hist' = [f \in DOMAIN hist \cup {id} |->
                              IF f = id THEN [last |-> "ok", doc |-> r.doc] ELSE hist[f]]
                /\ ret' = [op |-> "addFeed", status |-> "fulfilled", value |-> row, url |-> url, resp |-> resp,
                           overlapped |-> overlapped]
  /\ UNCHANGED <<now, tasks, allCall, displayed>>
  /\ UNCHANGED <<folders, nextFolderId, watchlist, nextStockId, quoting, opened, panel, probe>>

\* addFeed after its await.
AddFeedResume(resp) ==
  /\ adding.st = "fetching"
  /\ resp \in Responses(adding.url)
  /\ adding' = [st |-> "idle", url |-> UrlBad]
  /\ UNCHANGED adding2
  /\ AddFeedSettle(adding.url, resp, FALSE)

\* Another addFeed call entered while one may be in flight, up to its
\* await and after it.
AddFeedAgainStart(url) ==
  /\ adding2.st = "idle"
  /\ IF validateFeedUrl(url) # ""
     THEN /\ ret' = [op |-> "addFeed", status |-> "rejected", msg |-> validateFeedUrl(url), url |-> url]
          /\ UNCHANGED adding2
     ELSE /\ adding2' = [st |-> "fetching", url |-> url,
                         overlapped |-> (adding.st = "fetching" /\ adding.url = url)]
          /\ ret' = NoRet
  /\ UNCHANGED feedVars
  /\ UNCHANGED <<folders, nextFolderId, watchlist, nextStockId, quoting, opened, panel, probe>>

AddFeedAgainResume(resp) ==
  /\ adding2.st = "fetching"
  /\ resp \in Responses(adding2.url)
  /\ adding2' = [st |-> "idle", url |-> UrlBad]
  /\ UNCHANGED adding
  /\ AddFeedSettle(adding2.url, resp, adding2.overlapped)

\* updateFeedUrl: validation, then UPDATE feeds SET url (url is UNIQUE), then
\* the row is read back; rowToFeed of a missing row throws.
UpdateFeedUrl(id, url) ==
  /\ IF validateFeedUrl(url) # ""
     THEN /\ ret' = [op |-> "updateFeedUrl", status |-> "rejected", msg |-> validateFeedUrl(url), id |-> id, url |-> url]
          /\ UNCHANGED feeds
     ELSE IF id \notin DOMAIN feeds
     THEN /\ ret' = [op |-> "updateFeedUrl", status |-> "rejected", msg |-> "Cannot read properties of undefined", id |-> id, url |-> url]
          /\ UNCHANGED feeds
     ELSE IF \E f \in DOMAIN feeds \ {id} : feeds[f].url = url
     THEN /\ ret' = [op |-> "updateFeedUrl", status |-> "rejected", msg |-> "UNIQUE constraint failed: feeds.url", id |-> id, url |-> url]
          /\ UNCHANGED feeds
     ELSE /\ feeds' = [feeds EXCEPT ![id] = [@ EXCEPT !.url = url]]
          /\ ret' = [op |-> "updateFeedUrl", status |-> "fulfilled", msg |-> "", id |-> id, url |-> url]
  /\ UNCHANGED <<articles, nextFeedId, nextArticleId, now, tasks, allCall, adding, hist, displayed>>
  /\ UNCHANGED auxVars

\* renameFeed: UPDATE feeds SET title, then the row is read back; rowToFeed
\* of a missing row throws.
RenameFeed(id, title) ==
  /\ IF id \notin DOMAIN feeds
     THEN /\ ret' = [op |-> "renameFeed", status |-> "rejected", msg |-> "Cannot read properties of undefined", id |-> id]
          /\ UNCHANGED feeds
     ELSE /\ feeds' = [feeds EXCEPT ![id] = [@ EXCEPT !.title = title]]
          /\ ret' = [op |-> "renameFeed", status |-> "fulfilled", msg |-> "", id |-> id]
  /\ UNCHANGED <<articles, nextFeedId, nextArticleId, now, tasks, allCall, adding, hist, displayed>>
  /\ UNCHANGED auxVars

\* Backup files: the feeds array of the JSON file the user picks.
BackupEntry(url, title) == [url |-> url, title |-> title]
BackupFiles ==
  {<<BackupEntry(UrlFile, "Local file")>>,
   <<BackupEntry(UrlA, "A"), BackupEntry(UrlBad, "")>>}

\* importBackup, the feeds loop: INSERT OR IGNORE INTO feeds (url, title,
\* folder_id), every other column at its default.
RECURSIVE importFeeds(_, _, _, _)
importFeeds(fs, nid, entries, clock) ==
  IF entries = << >> THEN [feeds |-> fs, nid |-> nid, added |-> 0]
  ELSE LET f == Head(entries)
       IN IF \E g \in DOMAIN fs : fs[g].url = f.url
          THEN importFeeds(fs, nid, Tail(entries), clock)
          ELSE LET row == [id |-> nid, url |-> f.url,
                           title |-> (IF f.title # "" THEN f.title ELSE f.url.href),
                           description |-> "", site_url |-> "", folder_id |-> NoFolder, position |-> 0,
                           last_fetched_at |-> NULL, error_message |-> NULL, created_at |-> clock]
                   fs1 == [g \in DOMAIN fs \cup {nid} |-> IF g = nid THEN row ELSE fs[g]]
                   rest == importFeeds(fs1, nid + 1, Tail(entries), clock)
               IN [rest EXCEPT !.added = @ + 1]

\* importBackup for a file the user picked (these files name no folder and
\* no stock): the feeds are inserted in one transaction, nothing is fetched.
ImportBackup(file) ==
  /\ LET r == importFeeds(feeds, nextFeedId, file, now)
     IN /\ r.nid <= MaxFeeds + 1
        /\ feeds' = r.feeds
        /\ nextFeedId' = r.nid
        /\ hist' = [f \in DOMAIN r.feeds |-> IF f \in DOMAIN hist THEN hist[f] ELSE [last |-> "none", doc |-> NoDoc]]
        /\ ret' = [op |-> "importBackup", status |-> "fulfilled", value |-> [success |-> TRUE, feeds |-> r.added]]
  /\ UNCHANGED <<articles, nextArticleId, now, tasks, allCall, adding, displayed>>
  /\ UNCHANGED auxVars

\* removeFeed: DELETE FROM feeds, the articles go with ON DELETE CASCADE.
RemoveFeed(id) ==
  /\ id \in DOMAIN feeds
  /\ feeds' = Restrict(feeds, DOMAIN feeds \ {id})
  /\ articles' = {a \in articles : a.feed_id # id}
  /\ hist' = Restrict(hist, DOMAIN hist \ {id})
  /\ ret' = NoRet
  /\ UNCHANGED <<nextFeedId, nextArticleId, now, tasks, allCall, adding, displayed>>
  /\ UNCHANGED auxVars

\* refreshFeed up to its await: the feed row is read, a missing row throws
\* (the promise rejects), else the fetch of the row's url is started.
RefreshFeedStart(feedId) ==
  /\ IF feedId \notin DOMAIN feeds
     THEN /\ ret' = [op |-> "refreshFeed", feedId |-> feedId, status |-> "rejected",
                     msg |-> "Feed not found", existed |-> FALSE, ok |-> FALSE]
          /\ UNCHANGED tasks
     ELSE /\ BagCardinality(tasks) < MaxTasks
          /\ tasks' = tasks (+) SetToBag({NewTask(feedId, "one")})
          /\ ret' = NoRet
  /\ UNCHANGED <<feeds, articles, nextFeedId, nextArticleId, now, allCall, adding, hist, displayed>>
  /\ UNCHANGED auxVars

\* refreshFeed after its await, for the response the server gave.  The
\* promise settles: towards the IPC caller, or towards Promise.allSettled.
\* When it is the last pending promise of a refreshAllFeeds call, that call
\* continues in the same turn of the event loop (promise reactions are
\* microtasks) and returns its aggregate.
RefreshFeedSettleWith(task, resp, res, fault) ==
  /\ BagIn(task, tasks)
  /\ LET f == task.feedId
         value == IF res.status = "fulfilled" THEN listArticles(res.articles, f) ELSE {}
         settled == [feedId |-> f, status |-> res.status, value |-> value, ok |-> res.ok,
                     doc |-> res.doc, latest |-> TRUE]
         rest == tasks (-) SetToBag({task})
         results == {IF r.feedId = f THEN [r EXCEPT !.latest = FALSE] ELSE r : r \in allCall.results}
                      \cup (IF task.call = "all" THEN {settled} ELSE {})
         lastOfAll == task.call = "all" /\ \A x \in BagToSet(rest) : x.call # "all"
     IN /\ feeds' = res.feeds
        /\ articles' = res.articles
        /\ nextArticleId' = res.nid
        /\ hist' = IF f \in DOMAIN hist
                   THEN [hist EXCEPT ![f] = [last |-> (IF res.ok THEN "ok" ELSE "fail"),
                                             doc |-> (IF res.ok THEN res.doc ELSE @.doc)]]
                   ELSE hist
        /\ ret' = [op |-> "refreshFeed", feedId |-> f, status |-> res.status,
                   value |-> value, ok |-> res.ok, doc |-> res.doc, msg |-> res.msg, resp |-> resp,
                   existed |-> TRUE, fault |-> fault, url |-> task.url,
                   viaAll |-> (task.call = "all"), raced |-> task.raced,
                   again |-> (res.ok /\ f \in DOMAIN hist /\ hist[f].doc = res.doc),
                   hadError |-> (f \in DOMAIN feeds /\ feeds[f].error_message # NULL),
                   all |-> IF lastOfAll
                           THEN [op |-> "refreshAllFeeds", status |-> "fulfilled",
                                 value |-> aggregate(results), settled |-> results]
                           ELSE NoRet]
        /\ tasks' = BagOfAll(LAMBDA x : IF x.feedId = f /\ res.ok THEN [x EXCEPT !.raced = TRUE] ELSE x, rest)
        /\ allCall' = IF lastOfAll THEN IdleCall ELSE [allCall EXCEPT !.results = results]
  /\ UNCHANGED <<nextFeedId, now, adding, displayed>>
  /\ UNCHANGED auxVars

RefreshFeedSettle(task, resp) ==
  RefreshFeedSettleWith(task, resp,
                        refreshFeedResume(feeds, articles, nextArticleId, task.feedId, resp, now), 0)

RefreshFeedResume(task, resp) == resp \in Responses(task.url) /\ RefreshFeedSettle(task, resp)

\* refreshFeed after its await when the response is a feed document and
\* the storage fails at the failAt-th INSERT of insertArticles.
RefreshFeedResumeFault(task, resp, failAt) ==
  /\ resp \in Responses(task.url)
  /\ fetchAndParseFeed(resp).ok
  /\ failAt \in 1..Len(fetchAndParseFeed(resp).doc.items)
  /\ RefreshFeedSettleWith(task, resp,
                           refreshFeedResumeAt(feeds, articles, nextArticleId, task.feedId,
                                               fetchAndParseFeed(resp).doc, now, failAt), failAt)

\* fetch resolves with the status line and headers of the response: the
\* finally block clears the timer, and on a 2xx status the function goes
\* on to "await response.text()".
HeadersArrive(task) ==
  /\ BagIn(task, tasks)
  /\ task.phase = "headers"
  /\ tasks' = (tasks (-) SetToBag({task})) (+) SetToBag({[task EXCEPT !.phase = "body"]})
  /\ ret' = NoRet
  /\ UNCHANGED <<feeds, articles, nextFeedId, nextArticleId, now, allCall, adding, hist, displayed>>
  /\ UNCHANGED auxVars

\* The 30 s timer fires while fetch is still pending: controller.abort()
\* rejects the fetch and refreshFeed's catch block records the error.
FetchTimeout(task) == task.phase = "headers" /\ RefreshFeedSettle(task, Aborted)

\* refreshAllFeeds up to its await: listFeeds, then refreshFeed is entered
\* for every feed (each runs synchronously to its own fetch).
RefreshAllStart ==
  /\ allCall.st = "idle"
  /\ LET fl == listFeeds(feeds)
     IN IF fl = << >>
        THEN /\ ret' = [op |-> "refreshAllFeeds", status |-> "fulfilled", value |-> aggregate({}), settled |-> {}]
             /\ UNCHANGED <<tasks, allCall>>
        ELSE /\ BagCardinality(tasks) + Len(fl) <= MaxTasks
             /\ tasks' = tasks (+) SetToBag({NewTask(fl[k], "all") : k \in 1..Len(fl)})
             /\ allCall' = [st |-> "waiting", results |-> {}]
             /\ ret' = NoRet
  /\ UNCHANGED <<feeds, articles, nextFeedId, nextArticleId, now, adding, hist, displayed>>
  /\ UNCHANGED auxVars

ArticleIds == {a.id : a \in articles}
Undefined == 0

markArticleRead(arts, id, isRead) ==
  {IF a.id = id THEN [a EXCEPT !.is_read = IF isRead THEN 1 ELSE 0] ELSE a : a \in arts}

markAllRead(arts, feedId) ==
  {IF feedId = Undefined \/ a.feed_id = feedId THEN [a EXCEPT !.is_read = 1] ELSE a : a \in arts}

toggleStar(arts, id) ==
  {IF a.id = id THEN [a EXCEPT !.is_starred = IF a.is_starred = 1 THEN 0 ELSE 1] ELSE a : a \in arts}

MarkArticleRead(id, isRead) ==
  /\ id \in ArticleIds
  /\ articles' = markArticleRead(articles, id, isRead)
  /\ ret' = NoRet
  /\ UNCHANGED <<feeds, nextFeedId, nextArticleId, now, tasks, allCall, adding, hist, displayed>>
  /\ UNCHANGED auxVars

MarkAllRead(feedId) ==
  /\ feedId \in DOMAIN feeds \cup {Undefined}
  /\ articles' = markAllRead(articles, feedId)
  /\ ret' = NoRet
  /\ UNCHANGED <<feeds, nextFeedId, nextArticleId, now, tasks, allCall, adding, hist, displayed>>
  /\ UNCHANGED auxVars

ToggleStar(id) ==
  /\ id \in ArticleIds
  /\ articles' = toggleStar(articles, id)
  /\ ret' = NoRet
  /\ UNCHANGED <<feeds, nextFeedId, nextArticleId, now, tasks, allCall, adding, hist, displayed>>
  /\ UNCHANGED auxVars

\* RssPanel.selectArticle: articles.get(id), then ArticleView renders it.
SelectArticle(id) ==
  /\ id \in ArticleIds
  /\ LET article == getArticle(articles, id)
     IN displayed' = [article |-> id, raw |-> article.content, html |-> displayContent(article)]
  /\ ret' = NoRet
  /\ UNCHANGED <<feeds, articles, nextFeedId, nextArticleId, now, tasks, allCall, adding, hist>>
  /\ UNCHANGED auxVars

\* Time passes between two handlers.
Tick ==
  /\ now < MaxClock
  /\ now' = now + 1
  /\ ret' = NoRet
  /\ UNCHANGED <<feeds, articles, nextFeedId, nextArticleId, tasks, allCall, adding, hist, displayed>>
  /\ UNCHANGED auxVars

\* The refresh orchestration over both sources.
Next ==
  \/ \E url \in Urls : AddFeedStart(url)
  \/ \E url \in GoodUrls : \E resp \in CoreResponses(url) : AddFeedResume(resp)
  \/ \E id \in FeedIds : RemoveFeed(id)
  \/ \E id \in FeedIds : RefreshFeedStart(id)
  \/ \E task \in BagToSet(tasks) : \E resp \in CoreResponses(task.url) : RefreshFeedResume(task, resp)
  \/ RefreshAllStart

Spec == Init /\ [][Next]_vars

\* One source, refreshed while the user reads and stars its articles.
FlagUrls == {UrlA}

NextFlags ==
  \/ \E url \in FlagUrls : AddFeedStart(url)
  \/ \E url \in FlagUrls : \E resp \in Responses(url) : AddFeedResume(resp)
  \/ \E id \in FeedIds : RemoveFeed(id)
  \/ \E id \in FeedIds : RefreshFeedStart(id)
  \/ \E task \in BagToSet(tasks) : \E resp \in Responses(task.url) : RefreshFeedResume(task, resp)
  \/ RefreshAllStart
  \/ \E id \in ArticleIds : \E isRead \in BOOLEAN : MarkArticleRead(id, isRead)
  \/ \E id \in FeedIds \cup {Undefined} : MarkAllRead(id)
  \/ \E id \in ArticleIds : ToggleStar(id)

SpecFlags == Init /\ [][NextFlags]_vars

\* The read path: stored articles are selected and rendered.
NextView ==
  \/ \E url \in GoodUrls : AddFeedStart(url)
  \/ \E url \in GoodUrls : \E resp \in Responses(url) : AddFeedResume(resp)
  \/ \E id \in FeedIds : RefreshFeedStart(id)
  \/ \E task \in BagToSet(tasks) : \E resp \in Responses(task.url) : RefreshFeedResume(task, resp)
  \/ \E id \in ArticleIds : SelectArticle(id)

SpecView == Init /\ [][NextView]_vars

\* The feed list under addFeed, updateFeedUrl and importBackup, and the
\* refreshes of what they stored.
EditUrls == {UrlB, UrlFile}
UrlResponses(url) ==
  Responses(url) \ {Response(200, "rss", ChannelA2), Response(200, "html", NoBody), Response(500, "", NoBody),
                     Response(200, "rss", NoChannel)}

NextUrl ==
  \/ \E url \in {UrlA, UrlBad} : AddFeedStart(url)
  \/ \E resp \in UrlResponses(UrlA) : AddFeedResume(resp)
  \/ \E id \in FeedIds : \E url \in EditUrls : UpdateFeedUrl(id, url)
  \/ \E file \in BackupFiles : ImportBackup(file)
  \/ \E id \in FeedIds : RefreshFeedStart(id)
  \/ \E task \in BagToSet(tasks) : \E resp \in UrlResponses(task.url) : RefreshFeedResume(task, resp)
  \/ RefreshAllStart

SpecUrl == Init /\ [][NextUrl]_vars

\* Ingestion over time: an RSS and an Atom source whose items lack ids,
\* links, titles and dates in the ways publishers leave them out, added and
\* then refreshed together.
FirstResponses == {Response(200, "rss", ChannelC), Response(200, "feed", FeedD)}

NextParse ==
  \/ \E url \in ParseUrls : AddFeedStart(url)
  \/ \E resp \in FirstResponses : AddFeedResume(resp)
  \/ \E task \in BagToSet(tasks) : \E resp \in Responses(task.url) : RefreshFeedResume(task, resp)
  \/ RefreshAllStart
  \/ Tick

SpecParse == Init /\ [][NextParse]_vars

\* Refreshes against servers that may answer late, in part, or never.  The
\* timer is the program's own and fires when its fetch is still pending;
\* nothing obliges a server to answer or to finish a body.
NextLive ==
  \/ \E url \in GoodUrls : AddFeedStart(url)
  \/ \E url \in GoodUrls : \E resp \in CoreResponses(url) : AddFeedResume(resp)
  \/ tasks = EmptyBag /\ \E id \in FeedIds : RefreshFeedStart(id)
  \/ tasks = EmptyBag /\ RefreshAllStart
  \/ \E task \in BagToSet(tasks) : HeadersArrive(task)
  \/ \E task \in BagToSet(tasks) : FetchTimeout(task)
  \/ \E task \in BagToSet(tasks) : \E resp \in CoreResponses(task.url) : RefreshFeedResume(task, resp)

TimerFires(id) == \E task \in BagToSet(tasks) : task.feedId = id /\ FetchTimeout(task)

SpecLive == Init /\ [][NextLive]_vars /\ \A id \in FeedIds : WF_vars(TimerFires(id))

\* Sources that enter the store empty (imported from a backup) or filled
\* (added), and their refreshes, several of one source at a time.
NextOrder ==
  \/ \E file \in BackupFiles : ImportBackup(file)
  \/ \E url \in FlagUrls : AddFeedStart(url)
  \/ \E url \in FlagUrls : \E resp \in Responses(url) : AddFeedResume(resp)
  \/ \E id \in FeedIds : RefreshFeedStart(id)
  \/ \E task \in BagToSet(tasks) : \E resp \in Responses(task.url) : RefreshFeedResume(task, resp)

SpecOrder == Init /\ [][NextOrder]_vars

\* One source on a storage that can fail in the middle of a batch, while
\* the user reads, stars and removes.
NextTxn ==
  \/ \E url \in FlagUrls : AddFeedStart(url)
  \/ \E url \in FlagUrls : \E resp \in Responses(url) : AddFeedResume(resp)
  \/ \E id \in FeedIds : RemoveFeed(id)
  \/ \E id \in FeedIds : RefreshFeedStart(id)
  \/ \E task \in BagToSet(tasks) : \E resp \in Responses(task.url) : RefreshFeedResume(task, resp)
  \/ \E task \in BagToSet(tasks) : \E resp \in Responses(task.url) : \E failAt \in 1..MaxItems :
        RefreshFeedResumeFault(task, resp, failAt)
  \/ \E id \in ArticleIds : ToggleStar(id)

SpecTxn == Init /\ [][NextTxn]_vars

\* Servers that answer 200 with bodies that are feeds and bodies that are
\* not.
NextFormat ==
  \/ \E url \in GoodUrls : AddFeedStart(url)
  \/ \E url \in GoodUrls : \E resp \in Responses(url) : AddFeedResume(resp)
  \/ \E id \in FeedIds : RefreshFeedStart(id)
  \/ \E task \in BagToSet(tasks) : \E resp \in Responses(task.url) : RefreshFeedResume(task, resp)
  \/ RefreshAllStart

SpecFormat == Init /\ [][NextFormat]_vars

\* One source the user renames and points elsewhere while it is refreshed
\* over time, on a storage that can fail.
UserTitles == {"Mine"}
NextFrame ==
  \/ \E url \in FlagUrls : AddFeedStart(url)
  \/ \E url \in FlagUrls : \E resp \in UrlResponses(url) : AddFeedResume(resp)
  \/ \E id \in DOMAIN feeds : \E title \in UserTitles : RenameFeed(id, title)
  \/ \E id \in DOMAIN feeds : UpdateFeedUrl(id, UrlB)
  \/ tasks = EmptyBag /\ \E id \in DOMAIN feeds : RefreshFeedStart(id)
  \/ \E task \in BagToSet(tasks) : \E resp \in UrlResponses(task.url) : RefreshFeedResume(task, resp)
  \/ \E task \in BagToSet(tasks) : \E resp \in UrlResponses(task.url) : \E failAt \in 1..MaxItems :
        RefreshFeedResumeFault(task, resp, failAt)
  \/ Tick

SpecFrame == Init /\ [][NextFrame]_vars

\* Two addFeed calls at a time, of the same source or of two, and the
\* removal of what they stored.
NextTwice ==
  \/ \E url \in GoodUrls : AddFeedStart(url)
  \/ \E url \in GoodUrls : \E resp \in CoreResponses(url) : AddFeedResume(resp)
  \/ \E url \in GoodUrls : AddFeedAgainStart(url)
  \/ \E url \in GoodUrls : \E resp \in CoreResponses(url) : AddFeedAgainResume(resp)
  \/ \E id \in FeedIds : RemoveFeed(id)

SpecTwice == Init /\ [][NextTwice]_vars

\* ---------------------------------------------------------------- external links
\* A link is the sequence of its characters.
LinkHttp == <<"h", "t", "t", "p", ":", "/", "/", "a">>
LinkHttps == <<"h", "t", "t", "p", "s", ":", "/", "/", "a">>
LinkHttpBare == <<"h", "t", "t", "p", ":", "/", "/">>
LinkHttpsQuery == <<"h", "t", "t", "p", "s", ":", "/", "/", "b", "?", "c">>
LinkFile == <<"f", "i", "l", "e", ":", "/", "/", "/", "a">>
LinkJavascript == <<"j", "a", "v", "a", "s", "c", "r", "i", "p", "t", ":", "a">>
LinkUpper == <<"H", "T", "T", "P", ":", "/", "/", "a">>
LinkNoSlashes == <<"h", "t", "t", "p", ":", "a">>
LinkOneSlash == <<"h", "t", "t", "p", "s", ":", "/", "a">>
LinkEmpty == <<>>
LinkCustom == <<"h", "o", "f", "f", "m", "a", "n", ":", "/", "/", "a">>
LinkEmbedded == <<"x", ":", "h", "t", "t", "p", ":", "/", "/", "a">>
LinkSpace == <<" ", "h", "t", "t", "p", ":", "/", "/", "a">>
Links == {LinkHttp, LinkHttps, LinkHttpBare, LinkHttpsQuery, LinkFile, LinkJavascript, LinkUpper, LinkNoSlashes, LinkOneSlash, LinkEmpty, LinkCustom, LinkEmbedded, LinkSpace}

\* String.prototype.includes, in the place of startsWith.
includes(s, p) == \E i \in 1..(Len(s) - Len(p) + 1) : SubSeq(s, i, i + Len(p) - 1) = p

\* String.prototype.startsWith
startsWith(s, p) == Len(s) >= Len(p) /\ SubSeq(s, 1, Len(p)) = p

OnlyHttp == "Only http/https URLs are allowed for external links."

\* The 'shell:openExternal' handler; opened is the log of the calls of
\* shell.openExternal.
OpenExternal(url) ==
  /\ IF startsWith(url, <<"h", "t", "t", "p", ":", "/", "/">>) \/ startsWith(url, <<"h", "t", "t", "p", "s", ":", "/", "/">>)
     THEN /\ Len(opened) < MaxOpened
          /\ opened' = Append(opened, url)
          /\ ret' = [op |-> "openExternal", status |-> "fulfilled", url |-> url]
     ELSE /\ ret' = [op |-> "openExternal", status |-> "rejected", msg |-> OnlyHttp, url |-> url]
          /\ UNCHANGED opened
  /\ UNCHANGED feedVars
  /\ UNCHANGED <<adding2, folders, nextFolderId, watchlist, nextStockId, quoting, panel, probe>>

NextShell == \E url \in Links : OpenExternal(url)

SpecShell == Init /\ [][NextShell]_vars

\* ---------------------------------------------------------------- text coercion
\* The values str is applied to: the leaves, and objects over every set of
\* the keys __cdata, #text and an attribute, nested to MaxDepth.
Leaves == {Absent, XStr("a"), XStr(""), XNum(0), XNum(42), XBool(TRUE), XBool(FALSE), XArr(<<XStr("a")>>)}

RECURSIVE TreeValues(_)
TreeValues(d) ==
  IF d = 0 THEN Leaves
  ELSE LET inner == TreeValues(d - 1)
           attrs == SUBSET {"@_type"}
       IN Leaves
          \cup {XObj(k, Absent, Absent) : k \in attrs}
          \cup {XObj(k \cup {"__cdata"}, c, Absent) : k \in attrs, c \in inner}
          \cup {XObj(k \cup {"#text"}, Absent, x) : k \in attrs, x \in inner}
          \cup {XObj(k \cup {"__cdata", "#text"}, c, x) : k \in attrs, c \in inner, x \in inner}

\* One call of str.
Str(v) ==
  /\ probe' = [v |-> v, s |-> str(v)]
  /\ ret' = [op |-> "str", status |-> "fulfilled", value |-> str(v)]
  /\ UNCHANGED feedVars
  /\ UNCHANGED <<adding2, folders, nextFolderId, watchlist, nextStockId, quoting, opened, panel>>

\* a call depends on no earlier call, so one call is followed
NextStr == ret = NoRet /\ \E v \in TreeValues(MaxDepth) : Str(v)

SpecStr == Init /\ [][NextStr]_vars

\* ---------------------------------------------------------------- RssPanel auto-refresh
\* panel.runs holds the runs of the auto-refresh effect, the last one being
\* the current one of a mounted panel. A run has its settings.get promise
\* (pending or resolved), whether its cleanup has run, and its interval:
\* "none" while intervalId is unassigned, then "active", and "cleared"
\* after clearInterval.
Selections == {"all", "starred", "feed"}

\* the effect body up to the promise
NewRun == [get |-> "pending", cleaned |-> FALSE, interval |-> "none"]

\* the function the effect returns: if (intervalId) clearInterval(intervalId)
cleanup(run) ==
  [run EXCEPT !.cleaned = TRUE, !.interval = IF @ = "active" THEN "cleared" ELSE @]

cleanupCurrent(runs) == [runs EXCEPT ![Len(runs)] = cleanup(@)]

\* The panel mounts: the effects run for the first time.
Mount ==
  /\ ~panel.mounted
  /\ Len(panel.runs) < MaxRuns
  /\ panel' = [mounted |-> TRUE, selection |-> "all", runs |-> Append(panel.runs, NewRun)]
  /\ ret' = NoRet
  /\ UNCHANGED feedVars
  /\ UNCHANGED <<adding2, folders, nextFolderId, watchlist, nextStockId, quoting, opened, probe>>

\* The user selects a feed, the starred list or all: loadArticles is
\* re-created, the effect is cleaned up and runs again.
Select(sel) ==
  /\ panel.mounted
  /\ sel # panel.selection
  /\ Len(panel.runs) < MaxRuns
  /\ panel' = [panel EXCEPT !.selection = sel, !.runs = Append(cleanupCurrent(@), NewRun)]
  /\ ret' = NoRet
  /\ UNCHANGED feedVars
  /\ UNCHANGED <<adding2, folders, nextFolderId, watchlist, nextStockId, quoting, opened, probe>>

\* settings.get('refresh_interval') of run i resolves: its callback calls
\* setInterval and assigns intervalId.
SettingsResolve(i) ==
  /\ i \in DOMAIN panel.runs
  /\ panel.runs[i].get = "pending"
  /\ panel' = [panel EXCEPT !.runs[i] = [@ EXCEPT !.get = "resolved", !.interval = "active"]]
  /\ ret' = NoRet
  /\ UNCHANGED feedVars
  /\ UNCHANGED <<adding2, folders, nextFolderId, watchlist, nextStockId, quoting, opened, probe>>

\* The panel unmounts: the effect is cleaned up.
Unmount ==
  /\ panel.mounted
  /\ panel' = [panel EXCEPT !.mounted = FALSE, !.runs = cleanupCurrent(@)]
  /\ ret' = NoRet
  /\ UNCHANGED feedVars
  /\ UNCHANGED <<adding2, folders, nextFolderId, watchlist, nextStockId, quoting, opened, probe>>

\* The interval of run i fires: feeds.refresh() is called.
IntervalFires(i) ==
  /\ i \in DOMAIN panel.runs
  /\ panel.runs[i].interval = "active"
  /\ ret' = [op |-> "autoRefresh", run |-> i, current |-> (panel.mounted /\ i = Len(panel.runs))]
  /\ UNCHANGED panel
  /\ UNCHANGED feedVars
  /\ UNCHANGED <<adding2, folders, nextFolderId, watchlist, nextStockId, quoting, opened, probe>>

NextPanel ==
  \/ Mount
  \/ \E sel \in Selections : Select(sel)
  \/ \E i \in 1..MaxRuns : SettingsResolve(i)
  \/ Unmount
  \/ \E i \in 1..MaxRuns : IntervalFires(i)

SpecPanel == Init /\ [][NextPanel]_vars

\* ---------------------------------------------------------------- watchlist
\* A symbol and a name are the sequences of their characters.
SymLower == <<"a", "b">>
SymUpper == <<"A", "B">>
SymPadded == <<" ", "a", "b", " ">>
SymMixed == <<"A", "b">>
SymOther == <<"b">>
SymInner == <<"a", " ", "b">>
SymBlank == <<" ", " ">>
Symbols == {SymLower, SymUpper, SymPadded, SymMixed, SymOther, SymInner, SymBlank}
ShortName == <<"A", "b", " ", "I", "n", "c">>
LongName == <<"A", "b", " ", "C", "o", "r", "p">>
NoName == << >>

\* String.prototype.toUpperCase on the letters of the symbols
UpperChar(c) == IF c = "a" THEN "A" ELSE IF c = "b" THEN "B" ELSE c
toUpperCase(s) == [i \in DOMAIN s |-> UpperChar(s[i])]

\* String.prototype.trim
trim(s) ==
  LET inked == {i \in DOMAIN s : s[i] # " "}
  IN IF inked = {} THEN << >>
     ELSE SubSeq(s, CHOOSE i \in inked : \A j \in inked : i <= j,
                    CHOOSE i \in inked : \A j \in inked : i >= j)

\* upper without the trim
upperOnly(symbol) == toUpperCase(symbol)

\* const upper = symbol.toUpperCase().trim()
upperOf(symbol) == trim(toUpperCase(symbol))

\* What yf.quote(upper) gives: it throws, it resolves to undefined, or it
\* resolves to a quote with or without names.
QuoteThrows == [kind |-> "throws"]
QuoteUndefined == [kind |-> "undefined"]
Quote(short, long) == [kind |-> "quote", shortName |-> short, longName |-> long]
QuoteOutcomes == {QuoteThrows, QuoteUndefined, Quote(ShortName, LongName), Quote(NoName, LongName),
                  Quote(NoName, NoName)}

\* the try block: name = quote.shortName || quote.longName || upper, and
\* upper when the lookup or the property read throws
nameOf(outcome, upper) ==
  IF outcome.kind # "quote" THEN upper
  ELSE IF outcome.shortName # NoName THEN outcome.shortName
  ELSE IF outcome.longName # NoName THEN outcome.longName
  ELSE upper

\* watchlist.symbol is UNIQUE
symbolTaken(wl, upper) == \E i \in DOMAIN wl : wl[i].symbol = upper

rowToWatchlistItem(row) ==
  [id |-> row.id, symbol |-> row.symbol, displayName |-> row.display_name,
   position |-> row.position, addedAt |-> row.added_at]

\* SELECT * FROM watchlist ORDER BY position ASC, id ASC
getWatchlist(wl) ==
  LET ids == SortedIds(wl, DOMAIN wl)
  IN [i \in DOMAIN ids |-> rowToWatchlistItem(wl[ids[i]])]

\* addToWatchlist up to its first await.
AddToWatchlistStart(symbol) ==
  /\ BagCardinality(quoting) < MaxCalls
  /\ quoting' = quoting (+) SetToBag({[symbol |-> symbol, upper |-> upperOf(symbol)]})
  /\ ret' = NoRet
  /\ UNCHANGED feedVars
  /\ UNCHANGED <<adding2, folders, nextFolderId, watchlist, nextStockId, opened, panel, probe>>

\* addToWatchlist after the lookup has settled.
AddToWatchlistResume(call, outcome) ==
  /\ BagIn(call, quoting)
  /\ ~symbolTaken(watchlist, call.upper) => nextStockId <= MaxStocks
  /\ quoting' = quoting (-) SetToBag({call})
  /\ LET name == nameOf(outcome, call.upper)
         next == IF DOMAIN watchlist = {} THEN 0
                 ELSE 1 + (CHOOSE p \in {watchlist[i].position : i \in DOMAIN watchlist} :
                             \A i \in DOMAIN watchlist : watchlist[i].position <= p)
         row == [id |-> nextStockId, symbol |-> call.upper, display_name |-> name,
                 position |-> next, added_at |-> now]
     IN IF symbolTaken(watchlist, call.upper)
        THEN /\ ret' = [op |-> "addToWatchlist", status |-> "rejected",
                        msg |-> "UNIQUE constraint failed: watchlist.symbol",
                        symbol |-> call.symbol, lookup |-> outcome]
             /\ UNCHANGED <<watchlist, nextStockId>>
        ELSE /\ watchlist' = [i \in DOMAIN watchlist \cup {nextStockId} |->
                                IF i = nextStockId THEN row ELSE watchlist[i]]
             /\ nextStockId' = nextStockId + 1
             /\ ret' = [op |-> "addToWatchlist", status |-> "fulfilled", value |-> rowToWatchlistItem(row),
                        symbol |-> call.symbol, lookup |-> outcome]
  /\ UNCHANGED feedVars
  /\ UNCHANGED <<adding2, folders, nextFolderId, opened, panel, probe>>

\* removeFromWatchlist: DELETE FROM watchlist WHERE id = ?
RemoveFromWatchlist(id) ==
  /\ watchlist' = [i \in DOMAIN watchlist \ {id} |-> watchlist[i]]
  /\ ret' = [op |-> "removeFromWatchlist", status |-> "fulfilled", id |-> id]
  /\ UNCHANGED feedVars
  /\ UNCHANGED <<adding2, folders, nextFolderId, nextStockId, quoting, opened, panel, probe>>

StockIds == 1..MaxStocks

NextStocks ==
  \/ \E symbol \in Symbols : AddToWatchlistStart(symbol)
  \/ \E call \in BagToSet(quoting) : \E outcome \in QuoteOutcomes : AddToWatchlistResume(call, outcome)
  \/ \E id \in StockIds : RemoveFromWatchlist(id)

SpecStocks == Init /\ [][NextStocks]_vars

\* ---------------------------------------------------------------- folders and backup
FolderNames == {"News", "news", "Tech"}

\* String.prototype.toLowerCase on the folder names
toLowerCase(name) == IF name = "News" THEN "news" ELSE IF name = "Tech" THEN "tech" ELSE name

\* SELECT id, name, position FROM folders ORDER BY position ASC, id ASC
listFolders(fo) == SortedIds(fo, DOMAIN fo)

\* SELECT COALESCE(MAX(position), -1) + 1
nextPosition(rows) ==
  IF DOMAIN rows = {} THEN 0
  ELSE 1 + (CHOOSE p \in {rows[i].position : i \in DOMAIN rows} : \A i \in DOMAIN rows : rows[i].position <= p)

\* createFolder on the folders table fo with the next id nid
createFolder(fo, nid, name) ==
  [i \in DOMAIN fo \cup {nid} |->
     IF i = nid THEN [id |-> nid, name |-> name, position |-> nextPosition(fo)] ELSE fo[i]]

\* createFolder, called by the user.
CreateFolder(name) ==
  /\ nextFolderId <= MaxFolders
  /\ folders' = createFolder(folders, nextFolderId, name)
  /\ nextFolderId' = nextFolderId + 1
  /\ ret' = [op |-> "createFolder", status |-> "fulfilled", value |-> folders'[nextFolderId]]
  /\ UNCHANGED feedVars
  /\ UNCHANGED <<adding2, watchlist, nextStockId, quoting, opened, panel, probe>>

\* deleteFolder: the feeds of the folder stay, with folder_id NULL (ON
\* DELETE SET NULL).
DeleteFolder(id) ==
  /\ id \in DOMAIN folders
  /\ folders' = Restrict(folders, DOMAIN folders \ {id})
  /\ feeds' = [f \in DOMAIN feeds |-> IF feeds[f].folder_id = id THEN [feeds[f] EXCEPT !.folder_id = NoFolder]
                                       ELSE feeds[f]]
  /\ ret' = NoRet
  /\ UNCHANGED <<articles, nextFeedId, nextArticleId, now, tasks, allCall, adding, hist, displayed>>
  /\ UNCHANGED <<adding2, nextFolderId, watchlist, nextStockId, quoting, opened, panel, probe>>

\* moveFeed: UPDATE feeds SET folder_id = ?; a folder id with no row fails
\* the foreign key.
MoveFeed(id, folderId) ==
  /\ id \in DOMAIN feeds
  /\ IF folderId = NoFolder \/ folderId \in DOMAIN folders
     THEN /\ feeds' = [feeds EXCEPT ![id].folder_id = folderId]
          /\ ret' = [op |-> "moveFeed", status |-> "fulfilled"]
     ELSE /\ ret' = [op |-> "moveFeed", status |-> "rejected", msg |-> "FOREIGN KEY constraint failed"]
          /\ UNCHANGED feeds
  /\ UNCHANGED <<articles, nextFeedId, nextArticleId, now, tasks, allCall, adding, hist, displayed>>
  /\ UNCHANGED auxVars

\* exportBackup: the data written to the file. JSON.stringify leaves out
\* the folder of a feed that has none (NULL here).
exportBackup(fs, fo, wl) ==
  LET ids == listFeeds(fs)
      items == getWatchlist(wl)
  IN [feeds |-> [i \in DOMAIN ids |->
                   [url |-> fs[ids[i]].url, title |-> fs[ids[i]].title,
                    folder |-> IF fs[ids[i]].folder_id \in DOMAIN fo THEN fo[fs[ids[i]].folder_id].name
                               ELSE NULL]],
      stocks |-> [i \in DOMAIN items |-> [symbol |-> items[i].symbol, name |-> items[i].displayName]]]

\* A store: the three tables of the configuration and their next ids.
Store(fs, nfeed, fo, nfolder, wl, nstock) ==
  [feeds |-> fs, nextFeedId |-> nfeed, folders |-> fo, nextFolderId |-> nfolder,
   watchlist |-> wl, nextStockId |-> nstock]
EmptyStore == Store(<< >>, 1, << >>, 1, << >>, 1)

\* folderMap after listFolders().forEach(f => folderMap.set(lower-cased
\* name, f.id)): of the folders of one lower-cased name the last listed.
folderMapOf(fo) ==
  LET ids == listFolders(fo)
      keyAt(n) == toLowerCase(fo[ids[n]].name)
  IN [k \in {keyAt(n) : n \in DOMAIN ids} |->
        ids[CHOOSE n \in DOMAIN ids : keyAt(n) = k /\ \A m \in DOMAIN ids : keyAt(m) = k => m <= n]]

\* importBackup, the stocks loop: INSERT OR IGNORE INTO watchlist (symbol,
\* display_name, position) with symbol.toUpperCase() and s.name || symbol.
RECURSIVE importStocks(_, _, _)
importStocks(st, stocks, clock) ==
  IF stocks = << >> THEN [st |-> st, added |-> 0]
  ELSE LET s == Head(stocks)
           upper == toUpperCase(s.symbol)
       IN IF symbolTaken(st.watchlist, upper)
          THEN importStocks(st, Tail(stocks), clock)
          ELSE LET row == [id |-> st.nextStockId, symbol |-> upper,
                           display_name |-> (IF s.name # NoName THEN s.name ELSE s.symbol),
                           position |-> nextPosition(st.watchlist), added_at |-> clock]
                   wl1 == [i \in DOMAIN st.watchlist \cup {row.id} |->
                             IF i = row.id THEN row ELSE st.watchlist[i]]
                   rest == importStocks([st EXCEPT !.watchlist = wl1, !.nextStockId = @ + 1],
                                        Tail(stocks), clock)
               IN [rest EXCEPT !.added = @ + 1]

\* importBackup, the feeds loop with its folder lookup: a folder name not in
\* folderMap is created, then INSERT OR IGNORE INTO feeds (url, title,
\* folder_id) with f.title || f.url.
RECURSIVE importFeedRows(_, _, _, _)
importFeedRows(st, folderMap, entries, clock) ==
  IF entries = << >> THEN [st |-> st, feeds |-> 0, folders |-> 0]
  ELSE LET f == Head(entries)
           named == f.folder # NULL /\ f.folder # ""
           known == named /\ toLowerCase(f.folder) \in DOMAIN folderMap
           creates == named /\ ~known
           folderId == IF ~named THEN NoFolder
                       ELSE IF known THEN folderMap[toLowerCase(f.folder)]
                       ELSE st.nextFolderId
           st1 == IF creates
                  THEN [st EXCEPT !.folders = createFolder(st.folders, st.nextFolderId, f.folder),
                                  !.nextFolderId = @ + 1]
                  ELSE st
           map1 == IF creates
                   THEN [k \in DOMAIN folderMap \cup {toLowerCase(f.folder)} |->
                           IF k = toLowerCase(f.folder) THEN folderId ELSE folderMap[k]]
                   ELSE folderMap
           ignored == urlTaken(st1.feeds, f.url)
           row == [id |-> st1.nextFeedId, url |-> f.url,
                   title |-> (IF f.title # "" THEN f.title ELSE f.url.href),
                   description |-> "", site_url |-> "", folder_id |-> folderId, position |-> 0,
                   last_fetched_at |-> NULL, error_message |-> NULL, created_at |-> clock]
           st2 == IF ignored THEN st1
                  ELSE [st1 EXCEPT !.feeds = [g \in DOMAIN st1.feeds \cup {row.id} |->
                                                IF g = row.id THEN row ELSE st1.feeds[g]],
                                   !.nextFeedId = @ + 1]
           rest == importFeedRows(st2, map1, Tail(entries), clock)
       IN [rest EXCEPT !.feeds = @ + (IF ignored THEN 0 ELSE 1),
                       !.folders = @ + (IF creates THEN 1 ELSE 0)]

\* importBackup of the data of a file: the stocks, then the feeds, in one
\* transaction; the counts it returns.
importBackup(st, data, clock) ==
  LET s1 == importStocks(st, data.stocks, clock)
      f1 == importFeedRows(s1.st, folderMapOf(s1.st.folders), data.feeds, clock)
  IN [st |-> f1.st, count |-> [feeds |-> f1.feeds, stocks |-> s1.added, folders |-> f1.folders]]

\* The round trip of a backup: exportBackup of this store, then importBackup
\* of the file on an installation with an empty store, and importBackup of
\* the same file once more there.
ExportImport ==
  /\ LET data == exportBackup(feeds, folders, watchlist)
         first == importBackup(EmptyStore, data, now)
         second == importBackup(first.st, data, now)
     IN ret' = [op |-> "exportImport", status |-> "fulfilled", file |-> data,
                restored |-> first.st, first |-> first.count,
                again |-> second.st, second |-> second.count]
  /\ UNCHANGED feedVars
  /\ UNCHANGED auxVars

FolderIds == 1..MaxFolders
BackupSymbols == {SymLower}
BackupQuotes == {QuoteThrows, Quote(ShortName, LongName)}

NextBackup ==
  \/ \E url \in GoodUrls : adding.st = "idle" /\ AddFeedStart(url)
  \/ \E url \in GoodUrls : \E resp \in {Response(200, "rss", ChannelA), Response(200, "feed", FeedB)} :
        AddFeedResume(resp)
  \/ \E name \in FolderNames : CreateFolder(name)
  \/ \E id \in FolderIds : DeleteFolder(id)
  \/ \E id \in FeedIds : \E folderId \in FolderIds \cup {NoFolder} : MoveFeed(id, folderId)
  \/ \E symbol \in BackupSymbols : quoting = EmptyBag /\ AddToWatchlistStart(symbol)
  \/ \E call \in BagToSet(quoting) : \E outcome \in BackupQuotes : AddToWatchlistResume(call, outcome)
  \/ ExportImport

SpecBackup == Init /\ [][NextBackup]_vars

\* ================================================================ claims
FlagStep ==
  \/ \E id \in ArticleIds : \E isRead \in BOOLEAN : MarkArticleRead(id, isRead)
  \/ \E id \in FeedIds \cup {Undefined} : MarkAllRead(id)
  \/ \E id \in ArticleIds : ToggleStar(id)

Refreshed == ret.op = "refreshFeed" /\ ret.existed
AllRet ==
  IF ret.op = "refreshAllFeeds" THEN ret
  ELSE IF ret.op = "refreshFeed" /\ ret.existed THEN ret.all
  ELSE NoRet

\* C1: a refresh that succeeds with the document the feed ingested last
\* (by addFeed or by a refresh) leaves the articles table exactly as it
\* was: no new row, no changed column, no changed is_read / is_starred.
C1_Idempotent ==
  [][(ret'.op = "refreshFeed" /\ ret'.existed /\ ret'.again) => articles' = articles]_vars

C1_Witness ==
  /\ Refreshed /\ ret.again
  /\ \E a \in articles : a.feed_id = ret.feedId /\ a.is_read = 1 /\ a.is_starred = 1
  /\ Cardinality({a \in articles : a.feed_id = ret.feedId}) = 2

\* C2: a step of addFeed or refreshFeed (alone or under refreshAllFeeds)
\* keeps every existing article row as it is; a row that changes in a step
\* changes in a read/star step and only in is_read / is_starred; a row
\* disappears only with its feed.
C2_FlagsSurviveRefresh ==
  [][/\ (ret'.op \in {"refreshFeed", "addFeed"} => articles \subseteq articles')
     /\ \A a \in articles :
          \/ a \in articles'
          \/ a.feed_id \notin DOMAIN feeds'
          \/ /\ FlagStep
             /\ \E b \in articles' : b = [a EXCEPT !.is_read = b.is_read, !.is_starred = b.is_starred]]_vars

C2_Witness ==
  /\ Refreshed /\ ret.ok
  /\ \E a \in articles : \E i \in 1..Len(ret.doc.items) :
       /\ a.feed_id = ret.feedId /\ a.guid = ret.doc.items[i].guid
       /\ a.is_starred = 1
       /\ a.content # ret.doc.items[i].content

\* C3: at most one article row per (feed_id, guid), and per id.
C3_UniqueIdentity ==
  \A a, b \in articles : ((a.feed_id = b.feed_id /\ a.guid = b.guid) \/ a.id = b.id) => a = b

C3_Witness ==
  /\ Refreshed /\ ret.ok /\ ret.raced
  /\ Cardinality({a \in articles : a.feed_id = ret.feedId /\ a.guid = ret.doc.items[1].guid}) = 1

\* C4: when refreshAllFeeds returns it has not thrown, and for each source
\* of the call that still exists: if its fetch and parse succeeded, its
\* items are stored and (no later refresh of it having completed) its
\* error_message is NULL, whatever happened to the other sources; if it
\* failed, its error_message is set.
C4_FailureIsolation ==
  AllRet.op = "refreshAllFeeds" =>
    /\ AllRet.status = "fulfilled"
    /\ \A r \in AllRet.settled : r.feedId \in DOMAIN feeds =>
         /\ r.ok => ItemGuids(r.doc) \subseteq GuidsOf(articles, r.feedId)
         /\ (r.ok /\ r.latest) => feeds[r.feedId].error_message = NULL
         /\ (~r.ok /\ r.latest) => feeds[r.feedId].error_message # NULL

C4_Witness ==
  /\ AllRet.op = "refreshAllFeeds"
  /\ \E ra, rb \in AllRet.settled :
       /\ ~ra.ok /\ rb.ok /\ ra.latest /\ rb.latest
       /\ {ra.feedId, rb.feedId} \subseteq DOMAIN feeds
       /\ feeds[ra.feedId].error_message # NULL
       /\ feeds[rb.feedId].error_message = NULL
       /\ ItemGuids(rb.doc) # {} /\ ItemGuids(rb.doc) \subseteq GuidsOf(articles, rb.feedId)

\* C5 as stated: refreshFeed never rejects.
C5_NeverRaises == ret.op = "refreshFeed" => ret.status = "fulfilled"

\* C5 amended: refreshFeed rejects exactly when the feed row does not exist
\* at the call; otherwise it fulfils with the feed's stored articles, and a
\* failure is recorded on the feed row if that row still exists.
C5_RaisesOnlyNotFound ==
  ret.op = "refreshFeed" =>
    /\ ret.status = "rejected" <=> ~ret.existed
    /\ ret.existed =>
         /\ ret.value = listArticles(articles, ret.feedId)
         /\ (~ret.ok /\ ret.feedId \in DOMAIN feeds) => feeds[ret.feedId].error_message # NULL

C5_Witness ==
  /\ Refreshed /\ ~ret.ok /\ ret.status = "fulfilled"
  /\ ret.feedId \in DOMAIN feeds
  /\ feeds[ret.feedId].error_message # NULL
  /\ ret.value # {}

\* C6: the list refreshAllFeeds returns holds articles only of sources
\* whose refresh succeeded in this call.
C6_AggregatesOnlySucceeded ==
  AllRet.op = "refreshAllFeeds" =>
    \A a \in AllRet.value : \E r \in AllRet.settled : r.feedId = a.feedId /\ r.ok

\* C7: a feed's error_message is NULL exactly when its last completed
\* ingestion (addFeed or refresh) succeeded.
C7_ErrorLifecycle ==
  /\ DOMAIN hist = DOMAIN feeds
  /\ \A f \in DOMAIN feeds : (hist[f].last = "ok") <=> (feeds[f].error_message = NULL)

C7_Witness ==
  /\ Refreshed /\ ret.ok /\ ret.hadError
  /\ ret.feedId \in DOMAIN feeds
  /\ feeds[ret.feedId].error_message = NULL

HandlerAttrs == {"onerror", "onclick", "onload"}
Dangerous(e) ==
  \/ e.tag \in {"script", "style", "form", "iframe", "object", "embed"}
  \/ \E at \in e.attrs : at.name \in HandlerAttrs
HasActiveMarkup(html) == \E i \in 1..Len(Elements(html)) : Dangerous(Elements(html)[i])

\* C9: stored content with active markup is never handed to the DOM as it
\* is stored.
C9_NoRawContentRendered ==
  HasActiveMarkup(displayed.raw) => displayed.html # displayed.raw

\* C10: what is rendered holds no script, style, form, iframe, object or
\* embed element, no element with an on* attribute and no href/src outside
\* http/https; <p>hi</p><script>alert(1)</script> is rendered as <p>hi</p>.
C10_AllowlistOnly ==
  displayed.article # 0 =>
    /\ \A i \in 1..Len(Elements(displayed.html)) :
         /\ ~Dangerous(Elements(displayed.html)[i])
         /\ \A at \in Elements(displayed.html)[i].attrs :
              at.name \in {"href", "src"} => at.scheme \in {"http", "https"}
    /\ displayed.raw = HtmlXss => displayed.html = HtmlHi

\* C11: every stored feed's url is an absolute URL whose scheme is http or
\* https.
C11_StoredUrlsAreHttp ==
  \A f \in DOMAIN feeds : validateFeedUrl(feeds[f].url) = ""

\* C12: no fetch is in flight (started by addFeed, refreshFeed or
\* refreshAllFeeds) for a URL that is not an absolute http/https URL.
C12_NoFetchOfInvalidUrl ==
  /\ \A t \in BagToSet(tasks) : validateFeedUrl(t.url) = ""
  /\ adding.st = "fetching" => validateFeedUrl(adding.url) = ""

\* What C13 asks of an addFeed step: a rejected addFeed leaves feeds,
\* articles and both id sequences as they were; a fulfilled one has its
\* feed listed by listFeeds under the given url.
AddFeedFailsClosed ==
  /\ (ret'.op = "addFeed" /\ ret'.status = "rejected") =>
       /\ feeds' = feeds /\ articles' = articles
       /\ nextFeedId' = nextFeedId /\ nextArticleId' = nextArticleId
  /\ (ret'.op = "addFeed" /\ ret'.status = "fulfilled") =>
       \E k \in 1..Len(listFeeds(feeds')) :
         /\ listFeeds(feeds')[k] = ret'.value.id
         /\ feeds'[ret'.value.id].url = ret'.url
CreatedByAddFeed(f) ==
  /\ ret'.op = "addFeed" /\ ret'.status = "fulfilled" /\ ret'.value.id = f
  /\ feeds'[f].url = ret'.url
  /\ ret'.resp \in Responses(ret'.url)
  /\ fetchAndParseFeed(ret'.resp).ok

\* C13 as stated: a feed row appears only in the step of an addFeed whose
\* fetch and parse of the row's url succeeded, and addFeed fails closed.
C13_RowsOnlyAfterRoundTrip ==
  [][/\ AddFeedFailsClosed
     /\ \A f \in DOMAIN feeds' \ DOMAIN feeds : CreatedByAddFeed(f)]_vars

\* C13 amended: addFeed creates its feed row only after the fetch and parse
\* of the url succeeded and fails closed; the other rows are created by
\* importBackup, which fetches nothing.
C13_AddFeedFailsClosed ==
  [][/\ AddFeedFailsClosed
     /\ \A f \in DOMAIN feeds' \ DOMAIN feeds :
          \/ CreatedByAddFeed(f)
          \/ /\ ret'.op = "importBackup"
             /\ feeds'[f].last_fetched_at = NULL
             /\ articles' = articles]_vars

C13_Witness ==
  /\ ret.op = "addFeed" /\ ret.status = "rejected" /\ ret.msg = "Failed to fetch feed"
  /\ DOMAIN feeds # {}
  /\ \A f \in DOMAIN feeds : feeds[f].url # ret.url

\* C14: every article's feed_id refers to an existing feed in every state,
\* and a removeFeed(id) step leaves no article of the feed and no entry of
\* it in listFeeds, also when a refresh of the feed is still in flight and
\* resumes with items to insert after the row is gone.
NoOrphans == \A a \in articles : a.feed_id \in DOMAIN feeds
Listed(fs, id) == \E k \in 1..Len(listFeeds(fs)) : listFeeds(fs)[k] = id

C14_CascadeDelete ==
  /\ NoOrphans
  /\ [][/\ NoOrphans'
        /\ \A id \in FeedIds :
             RemoveFeed(id) => /\ ~Listed(feeds', id)
                               /\ \A a \in articles' : a.feed_id # id]_vars

\* a refresh resumed with parsed items after its feed was removed
C14_Witness ==
  /\ ret.op = "refreshFeed" /\ ret.existed
  /\ ret.msg = "FOREIGN KEY constraint failed"
  /\ ret.feedId \notin DOMAIN feeds
  /\ articles # {}

\* C15 (as stated): no stored article has the empty identity, an item
\* with no guid, no link and no title being skipped.
C15_NoEmptyIdentity == \A a \in articles : a.guid # ""

\* C16: the identity an item is stored under is its explicit guid (RSS) or
\* id (Atom) when that is non-empty, else its resolved link when that is
\* non-empty, else its title; and when an RSS source of two items, one
\* without guid but with a link, and an Atom source of one entry are
\* refreshed together into a store that holds nothing else, exactly three
\* articles are stored and the guid-less item is stored under its link.
Ingested ==
  \/ ret.op = "refreshFeed" /\ ret.existed /\ ret.ok
  \/ ret.op = "addFeed" /\ ret.status = "fulfilled"
IngestedFeed == IF ret.op = "refreshFeed" THEN ret.feedId ELSE ret.value.id
RawItems(resp) == IF resp.root = "rss" THEN resp.doc.item.elems ELSE resp.doc.entry.elems
ExplicitId(resp, x) == IF resp.root = "rss" THEN str(x.guid) ELSE str(x.id)
StoredUnderChain(f, explicit, title) ==
  \E a \in articles :
     /\ a.feed_id = f /\ a.title = title
     /\ a.guid = (IF explicit # "" THEN explicit ELSE IF a.link # "" THEN a.link ELSE a.title)
ScenarioTitles == {str(RawC1.title), str(RawC2.title), str(EntryD1.title)}
RefreshedTogether ==
  /\ ret.op = "refreshFeed" /\ ret.existed /\ ret.all.op = "refreshAllFeeds"
  /\ {r.doc : r \in ret.all.settled} = {parseRssChannel(ChannelC), parseAtomFeed(FeedD)}
  /\ \A a \in articles : a.title \in ScenarioTitles

C16_IdentityChain ==
  /\ Ingested =>
       \A k \in 1..Len(RawItems(ret.resp)) :
          StoredUnderChain(IngestedFeed, ExplicitId(ret.resp, RawItems(ret.resp)[k]),
                           str(RawItems(ret.resp)[k].title))
  /\ RefreshedTogether =>
       /\ Cardinality(articles) = 3
       /\ \E a \in articles : a.title = str(RawC2.title) /\ a.guid = "https://c.example/2"

C16_Witness == RefreshedTogether /\ Cardinality(articles) = 3

\* C17: an item whose date is missing or does not parse is stored all the
\* same, its published_at being the time of its ingestion; no stored
\* published_at is empty, and a refresh whose response is a feed document
\* ends without an error whatever the dates in it.
Dateless(resp, x) ==
  IF resp.root = "rss"
  THEN toIso(x.pubDate) = NoDate /\ toIso(x.dc_date) = NoDate
  ELSE toIso(x.updated) = NoDate /\ toIso(x.published) = NoDate
IsFeedDocument(resp) == resp.kind = "response" /\ resp.status = 200 /\ resp.root \in {"rss", "feed"}

C17_DateFallback ==
  /\ \A a \in articles : a.published_at # NoDate
  /\ Ingested =>
       \A k \in 1..Len(RawItems(ret.resp)) :
          Dateless(ret.resp, RawItems(ret.resp)[k]) =>
            \E a \in articles : /\ a.feed_id = IngestedFeed
                                 /\ a.title = str(RawItems(ret.resp)[k].title)
                                 /\ a.published_at = a.fetched_at
                                 /\ a.fetched_at \in 1..now
  /\ (ret.op = "refreshFeed" /\ ret.existed /\ IsFeedDocument(ret.resp) /\ ret.feedId \in DOMAIN feeds)
       => ret.ok /\ feeds[ret.feedId].error_message = NULL

\* an entry without a date, ingested by a refresh after time has passed
C17_Witness ==
  /\ Ingested /\ ret.op = "refreshFeed"
  /\ \E k \in 1..Len(RawItems(ret.resp)) : Dateless(ret.resp, RawItems(ret.resp)[k])
  /\ \E a \in articles : a.title = str(EntryD2.title) /\ a.published_at = MaxClock /\ a.fetched_at = MaxClock
  /\ \E a \in articles : a.fetched_at < MaxClock

\* C18 (as stated): every started refreshFeed eventually completes and its
\* feed has no refresh in flight any more, whether the server stalls
\* before the headers or while it sends the body.
Refreshing(id) == \E task \in BagToSet(tasks) : task.feedId = id

C18_RefreshTerminates == \A id \in FeedIds : Refreshing(id) ~> ~Refreshing(id)

\* What the store holds after a document's items were inserted in the
\* order p, and after two refreshes in flight for feed f committed the
\* responses r1 and r2 in that order.
Keys(arts) == {<<a.feed_id, a.guid>> : a \in arts}
Contents(arts) == {[a EXCEPT !.id = 0] : a \in arts}
Reordered(items, p) == [i \in 1..Len(items) |-> items[p[i]]]
Orders(items) == Permutations(1..Len(items))
StoredIn(f, items) == insertArticles(feeds, articles, nextArticleId, f, items, now).articles
ResumeAfter(st, f, r) == refreshFeedResume(st.feeds, st.articles, st.nid, f, r, now)
Committed(f, r1, r2) ==
  ResumeAfter(ResumeAfter([feeds |-> feeds, articles |-> articles, nid |-> nextArticleId], f, r1), f, r2).articles
ParsedDocs(url) == {fetchAndParseFeed(r).doc : r \in {x \in Responses(url) : fetchAndParseFeed(x).ok}}
TwoInFlight(f) ==
  \E t1 \in BagToSet(tasks) : \E t2 \in BagToSet(tasks (-) SetToBag({t1})) : t1.feedId = f /\ t2.feedId = f

\* C19 (as stated): the rows a source ends with, contents included, are the
\* same for every order of the items of a document and for both orders in
\* which two refreshes of the source in flight commit.
C19_RowsOrderFree ==
  \A f \in DOMAIN feeds :
    /\ \A d \in ParsedDocs(feeds[f].url) : \A p \in Orders(d.items) :
          Contents(StoredIn(f, Reordered(d.items, p))) = Contents(StoredIn(f, d.items))
    /\ TwoInFlight(f) =>
          \A r1, r2 \in Responses(feeds[f].url) :
             Contents(Committed(f, r1, r2)) = Contents(Committed(f, r2, r1))

\* C19: for every order of the items of a document, and for both orders in
\* which two refreshes of a source in flight commit, the stored rows are
\* left as they are, the identities stored are those stored before and
\* those of the inserted items, one row each; so the set of identities
\* does not depend on the order (the contents of a new row are those of
\* the item of its identity that was inserted first).
C19_IdentitiesOrderFree ==
  \A f \in DOMAIN feeds :
    /\ \A d \in ParsedDocs(feeds[f].url) : \A p \in Orders(d.items) :
          /\ articles \subseteq StoredIn(f, Reordered(d.items, p))
          /\ Keys(StoredIn(f, Reordered(d.items, p))) = Keys(articles) \cup {<<f, g>> : g \in ItemGuids(d)}
          /\ Cardinality(StoredIn(f, Reordered(d.items, p))) = Cardinality(Keys(StoredIn(f, Reordered(d.items, p))))
          /\ Keys(StoredIn(f, Reordered(d.items, p))) = Keys(StoredIn(f, d.items))
    /\ TwoInFlight(f) =>
          \A r1, r2 \in Responses(feeds[f].url) :
             /\ articles \subseteq Committed(f, r1, r2)
             /\ Keys(Committed(f, r1, r2)) = Keys(Committed(f, r2, r1))
             /\ Cardinality(Committed(f, r1, r2)) = Cardinality(Keys(Committed(f, r1, r2)))

\* a refresh committed after another refresh of its feed, in flight with
\* it, had stored an item of the same identity with other contents
C19_Witness ==
  /\ ret.op = "refreshFeed" /\ ret.existed /\ ret.ok /\ ret.raced
  /\ Len(ret.doc.items) = 1
  /\ \E a \in articles : /\ a.feed_id = ret.feedId /\ a.guid = ret.doc.items[1].guid
                           /\ a.title # ret.doc.items[1].title

\* C20: the rows of one refresh are stored all together or not at all.  In
\* every state every stored row belongs to a document of its source whose
\* identities are all stored (what a list, a star toggle, another refresh
\* or a removeFeed gets to see is never a part of a batch); a refresh that
\* completes without error has stored every identity of its document; and
\* a refresh whose storage fails at one INSERT of the batch leaves the
\* articles table as it was.
FromDocument(a, d) ==
  \E i \in 1..Len(d.items) :
     d.items[i].guid = a.guid /\ d.items[i].title = a.title /\ d.items[i].content = a.content
BatchesWhole ==
  \A a \in articles :
     \E d \in ParsedDocs(feeds[a.feed_id].url) :
        FromDocument(a, d) /\ ItemGuids(d) \subseteq GuidsOf(articles, a.feed_id)

C20_AllOrNothing ==
  /\ BatchesWhole
  /\ [][/\ BatchesWhole'
        /\ (ret'.op = "refreshFeed" /\ ret'.existed) =>
              IF ret'.ok
              THEN GuidsOf(articles', ret'.feedId) = GuidsOf(articles, ret'.feedId) \cup ItemGuids(ret'.doc)
              ELSE articles' = articles]_vars

\* the storage failed after an INSERT of the batch had added a row
C20_Witness ==
  /\ ret.op = "refreshFeed" /\ ret.existed /\ ~ret.ok /\ ret.msg = StorageFull
  /\ ret.feedId \in DOMAIN feeds
  /\ \E k \in 1..(ret.fault - 1) :
        fetchAndParseFeed(ret.resp).doc.items[k].guid \notin GuidsOf(articles, ret.feedId)

\* C23 (as stated): a refresh whose fetched body has a root that is
\* neither an RSS channel document nor an Atom feed, an <rss> root without
\* channel included, fulfils, records the unrecognized-format error on the
\* feed and stores no article.
NotAFeed(resp) ==
  /\ resp.kind = "response" /\ resp.status = 200
  /\ resp.root \notin {"rss", "feed"} \/ (resp.root = "rss" /\ resp.doc = NoChannel)

C23_UnrecognizedFormatRecorded ==
  [][(ret'.op = "refreshFeed" /\ ret'.existed /\ NotAFeed(ret'.resp)) =>
       /\ ret'.status = "fulfilled" /\ ~ret'.ok
       /\ articles' = articles
       /\ feeds'[ret'.feedId].error_message = UnrecognizedFormat]_vars

\* C24 (as stated): the stored summary of every article is the text, markup
\* stripped and cut at 500 characters, of the field that became its content.
C24_SnippetOfContent == \A a \in articles : a.summary = stripTags(a.content)

\* C28 (as stated): a refresh, successful or failed, leaves title, url,
\* folder_id and position of every feed as they are, and a failed refresh
\* changes no column of a feed row other than error_message.
UserFields(row) == <<row.title, row.url, row.folder_id, row.position>>
ButError(row) == [row EXCEPT !.error_message = NULL]

C28_RefreshKeepsUserFields ==
  [][(ret'.op = "refreshFeed" /\ ret'.existed) =>
       /\ DOMAIN feeds' = DOMAIN feeds
       /\ \A f \in DOMAIN feeds :
            /\ UserFields(feeds'[f]) = UserFields(feeds[f])
            /\ ~ret'.ok => ButError(feeds'[f]) = ButError(feeds[f])]_vars

\* C30 (as stated): a refresh that fetched a url its feed no longer has
\* when it resumes writes nothing: no article is inserted and the feed
\* rows stay as they are.
C30_NoStaleUrlIngestion ==
  [][(/\ ret'.op = "refreshFeed" /\ ret'.existed
      /\ ret'.feedId \in DOMAIN feeds
      /\ ret'.url # feeds[ret'.feedId].url) =>
        articles' = articles /\ feeds' = feeds]_vars

\* C29: no two feed rows have the same url; an addFeed that completes
\* when a row of its url exists is rejected and leaves feeds and articles
\* as they were, also when it overlapped with the addFeed that created
\* that row (both fetched before either inserted); an addFeed whose fetch
\* gave a document while no row of its url exists creates the row.
UniqueUrl == \A f, g \in DOMAIN feeds : feeds[f].url = feeds[g].url => f = g

C29_OneFeedPerUrl ==
  /\ UniqueUrl
  /\ [][/\ UniqueUrl'
        /\ (ret'.op = "addFeed" /\ urlTaken(feeds, ret'.url)) =>
              ret'.status = "rejected" /\ feeds' = feeds /\ articles' = articles
        /\ (ret'.op = "addFeed" /\ ret'.status = "fulfilled") =>
              /\ ~urlTaken(feeds, ret'.url)
              /\ Cardinality(DOMAIN feeds') = Cardinality(DOMAIN feeds) + 1]_vars

\* the later of two overlapping addFeed calls of one url has failed on the
\* row the earlier one created
C29_Witness ==
  /\ ret.op = "addFeed" /\ ret.status = "rejected"
  /\ ret.msg = "UNIQUE constraint failed: feeds.url"
  /\ ret.overlapped
  /\ \E f \in DOMAIN feeds : feeds[f].url = ret.url /\ \E a \in articles : a.feed_id = f

\* C26: shell.openExternal is called only with links that begin with
\* http:// or https://: the handler called with such a link passes exactly
\* that link on, and called with any other link it throws and calls
\* nothing.
BeginsWith(url, scheme) == \E n \in 0..Len(url) : SubSeq(url, 1, n) = scheme
IsWebLink(url) == BeginsWith(url, <<"h", "t", "t", "p", ":", "/", "/">>) \/ BeginsWith(url, <<"h", "t", "t", "p", "s", ":", "/", "/">>)

C26_ExternalLinksHttpOnly ==
  /\ \A i \in DOMAIN opened : IsWebLink(opened[i])
  /\ [][/\ \A i \in DOMAIN opened' : IsWebLink(opened'[i])
        /\ ret'.op = "openExternal" =>
              IF IsWebLink(ret'.url)
              THEN ret'.status = "fulfilled" /\ opened' = Append(opened, ret'.url)
              ELSE ret'.status = "rejected" /\ ret'.msg = OnlyHttp /\ opened' = opened]_vars

\* a web link has been opened and a link that only contains http:// has
\* just been refused
C26_Witness ==
  /\ opened # << >>
  /\ ret.op = "openExternal" /\ ret.status = "rejected" /\ ret.url = LinkEmbedded

\* C25: str returns a string for every value of the tree: a string
\* itself, a number or a boolean in its decimal or true/false writing, for
\* an object with a CDATA key the coerced CDATA payload (also when it has a
\* text node too), else for an object with a text key the coerced text
\* node, and the empty string for everything else (a missing value, an
\* array, an object with neither key).
HasKey(v, k) == v.t = "object" /\ k \in v.keys

C25_CoercionOrder ==
  ret.op = "str" =>
    /\ probe.s \in STRING /\ ret.status = "fulfilled" /\ ret.value = probe.s
    /\ probe.v.t = "string" => probe.s = probe.v.v
    /\ probe.v.t = "number" => probe.s = ToString(probe.v.v)
    /\ probe.v.t = "boolean" => probe.s = (IF probe.v.v THEN "true" ELSE "false")
    /\ HasKey(probe.v, "__cdata") => probe.s = str(probe.v.cdata)
    /\ (HasKey(probe.v, "#text") /\ ~HasKey(probe.v, "__cdata")) => probe.s = str(probe.v.text)
    /\ (probe.v.t \in {"undefined", "array"}
          \/ (probe.v.t = "object" /\ probe.v.keys \cap {"__cdata", "#text"} = {})) => probe.s = ""

\* C25 as stated: a string itself, else the CDATA payload, else the text
\* node, else the empty string, numbers and booleans falling to the last case.
C25_FourStepFallback ==
  ret.op = "str" =>
    IF probe.v.t = "string" THEN probe.s = probe.v.v
    ELSE IF HasKey(probe.v, "__cdata") THEN probe.s = str(probe.v.cdata)
    ELSE IF HasKey(probe.v, "#text") THEN probe.s = str(probe.v.text)
    ELSE probe.s = ""

\* str applied to an object with a numeric CDATA payload and a text node
C25_Witness ==
  /\ ret.op = "str"
  /\ HasKey(probe.v, "__cdata") /\ HasKey(probe.v, "#text")
  /\ probe.v.cdata = XNum(42) /\ probe.v.text = XStr("a")
  /\ probe.s = "42"

\* C27: at most one auto-refresh interval is active at any time, none
\* for an unmounted panel, and the interval of an effect run that has been
\* cleaned up is not active, whenever the cleanup ran.
ActiveRuns == {i \in DOMAIN panel.runs : panel.runs[i].interval = "active"}

C27_SingleRefreshTimer ==
  /\ Cardinality(ActiveRuns) <= 1
  /\ ~panel.mounted => ActiveRuns = {}
  /\ \A i \in DOMAIN panel.runs : panel.runs[i].cleaned => panel.runs[i].interval # "active"

\* the case the code gets right: the cleanup of a run whose interval exists
LiveIntervalCleared ==
  [][\A i \in DOMAIN panel.runs :
       (/\ panel.runs[i].interval = "active" /\ ~panel.runs[i].cleaned
        /\ panel'.runs[i].cleaned) => panel'.runs[i].interval = "cleared"]_vars

\* C22: an addToWatchlist(symbol) that completes while no row has the
\* upper-cased, trimmed symbol inserts one row with that symbol and returns
\* it, whatever the quote lookup did; when the lookup threw or gave no
\* quote the displayName is the symbol; getWatchlist then lists the row, and
\* the other rows are as before. After removeFromWatchlist(id) getWatchlist
\* lists no row of that id and the other rows are as before.
ListedStocks(wl) == {getWatchlist(wl)[i] : i \in DOMAIN getWatchlist(wl)}
WantedSymbol(symbol) == trim(toUpperCase(symbol))
LookupFailed(outcome) == outcome.kind \in {"throws", "undefined"}

C22_RemoveWitness ==
  /\ ret.op = "removeFromWatchlist"
  /\ ret.id = 1 /\ nextStockId > 1 /\ 1 \notin DOMAIN watchlist /\ 2 \in DOMAIN watchlist

\* C21: the store restored from a backup on an empty installation has
\* the feeds of the exported store with their urls, titles and folder
\* names, the folders of the exported store by name, and its watchlist
\* symbols; importing the file again there adds nothing.
FeedEntries(fs, fo) ==
  {<<fs[f].url, fs[f].title, IF fs[f].folder_id \in DOMAIN fo THEN fo[fs[f].folder_id].name ELSE NULL>> :
     f \in DOMAIN fs}
FolderNamesOf(fo) == {fo[i].name : i \in DOMAIN fo}
SymbolsOf(wl) == {wl[i].symbol : i \in DOMAIN wl}
NothingAdded == [feeds |-> 0, stocks |-> 0, folders |-> 0]

C21_BackupRoundTrip ==
  ret.op = "exportImport" =>
    /\ FeedEntries(ret.restored.feeds, ret.restored.folders) = FeedEntries(feeds, folders)
    /\ FolderNamesOf(ret.restored.folders) = FolderNamesOf(folders)
    /\ SymbolsOf(ret.restored.watchlist) = SymbolsOf(watchlist)
    /\ ret.second = NothingAdded

\* what the round trip does keep: the feeds with urls and titles, the names
\* of the folders that hold a feed (up to the case of the letters), the
\* symbols, and a second import that adds nothing
FeedsOf(fs) == {<<fs[f].url, fs[f].title>> : f \in DOMAIN fs}
UsedFolderKeys(fs, fo) == {toLowerCase(fo[fs[f].folder_id].name) : f \in {g \in DOMAIN fs : fs[g].folder_id \in DOMAIN fo}}

BackupKeepsFeedsAndStocks ==
  ret.op = "exportImport" =>
    /\ FeedsOf(ret.restored.feeds) = FeedsOf(feeds)
    /\ UsedFolderKeys(ret.restored.feeds, ret.restored.folders) = UsedFolderKeys(feeds, folders)
    /\ {toLowerCase(n) : n \in FolderNamesOf(ret.restored.folders)} = UsedFolderKeys(feeds, folders)
    /\ SymbolsOf(ret.restored.watchlist) = SymbolsOf(watchlist)
    /\ ret.second = NothingAdded /\ ret.again = ret.restored

====
